---- MODULE Spec2Model ----
(***************************************************************************)
(* Model of the multi-chain token indexer (app/database.py,                *)
(* app/indexer.py): the store operations on transfers, balances and the    *)
(* sync checkpoint, and the per-chain indexer that drives them batch by    *)
(* batch.  One chain is modelled; every table is keyed by chain_id in the  *)
(* source and the model is the slice of the tables for that chain.         *)
(*                                                                         *)
(* Token values travel as decimal text (str(value) / int(value)); Python   *)
(* integers are unbounded and the round trip is exact, so a value is a     *)
(* natural number here.                                                    *)
(***************************************************************************)
EXTENDS Integers, Sequences, FiniteSets, TLC

\* ------------------------------------------------------------------------
\* Bounds and input sets
\* ------------------------------------------------------------------------
MaxBlock == 2        \* blocks 1..MaxBlock exist on the modelled chain
MaxCrashes == 1      \* process deaths per behaviour
MaxErrors == 3       \* consecutive failed fetches of one index_blocks call
MaxOps == 2          \* store calls per behaviour of the store specification

ZERO_ADDRESS == "0x0000000000000000000000000000000000000000"
Addresses == {ZERO_ADDRESS, "0xA", "0xB"}
Values == {1}
StartBlocks == {1, 2}
BatchSizes == {1, 2}
Blocks == 1..MaxBlock

\* one Transfer log of the chain: topics[1], topics[2], data
Events == [from_address : Addresses, to_address : Addresses, value : Values]
\* the logs of one block, in provider order (at most one per block here)
BlockContents == {<<>>} \cup {<<e>> : e \in {x \in Events : x.from_address # x.to_address}}

VARIABLES
  \* ---- persistent store (database.py tables, this chain's rows) ----
  registered,           \* the chain has its rows in chains and sync_state
  transfers,            \* set of rows of table transfers
  balances,             \* table balances: function address -> balance, DOMAIN = rows
  address_types,        \* table address_types: function address -> is_eoa
  last_indexed_block,   \* sync_state.last_indexed_block
  is_syncing,           \* sync_state.is_syncing
  \* ---- configuration and environment ----
  start_block,          \* chain_config.start_block
  cfg_batch_size,       \* settings.batch_size / DEFAULT_BATCH_SIZES entry
  chainlog,             \* the chain: block -> Transfer logs of the token
  \* ---- ChainIndexer (volatile) ----
  pc,                   \* position of the sync coroutine
  batch_size,           \* self._batch_size
  current_chain_block,  \* sync: current_chain_block
  current_block,        \* index_blocks: current_block
  end_block,            \* index_blocks: end_block
  batch_end,            \* index_blocks: batch_end
  batch,                \* index_blocks: transfers (the fetched batch)
  consecutive_errors,   \* index_blocks: consecutive_errors
  \* ---- history (not read by the program) ----
  fetched,              \* every transfer returned by a successful get_logs
  applied,              \* keys of transfers whose delta went through a balance write
  crashes,              \* process deaths so far
  crash_pc,             \* pc at the latest death inside a batch ("none" otherwise)
  crash_transfers,      \* table transfers at that death
  crash_batch_end,      \* batch_end of the interrupted batch
  rebuilt,              \* sync of the running process went through rebuild_all_balances
  \* ---- direct calls of the store (SpecStore) ----
  op,                   \* the store operation called last
  arg_items,            \* its items[] argument (kept for a whole batch and for a balance update)
  arg_n,                \* its block number argument
  pre_lib,              \* last_indexed_block before the call
  collided,             \* insert_transfers met an existing key with another row
  dropped,              \* the balance update computed a balance <= 0
  nops,                 \* calls so far
  \* ---- failed fetches (history, not read by the program) ----
  last_event,           \* kind of the latest failed fetch ("none" once a batch completes)
  failed_req,           \* <<from_block, to_block>> of the latest failed get_logs
  failed_bs,            \* self._batch_size when that request was made
  nonrange_run,         \* non-range failures in a row, no success or range error between
  reduced_to,           \* self._batch_size as the latest range error left it (0: none yet)
  \* ---- stopping ----
  stop_requested,       \* self._stop_requested
  shutdown,             \* lifespan: the shutdown path has run
  stopped_at,           \* pc at which the sync coroutine ended ("none" while it lives)
  \* ---- MultiChainIndexer: one sync task per chain ----
  tasks,                \* chain_id -> state of the task asyncio.create_task(indexer.sync())
  stop_flags,           \* chain_id -> indexer._stop_requested
  checkpoints,          \* chain_id -> sync_state.last_indexed_block of that chain
  supervisor,           \* position of sync_all
  stop_called,          \* MultiChainIndexer.stop() has been called (and has returned)
  failure_mark,         \* checkpoints at the latest failure of a task (history)
  \* ---- address classification ----
  rpc,                  \* what the provider holds and how it answers eth_getCode
  eoa_map,              \* the dict batch_check_eoa returned
  eoa_path,             \* "batch" or "fallback": the path that produced eoa_map
  checked,              \* the list of addresses handed to batch_check_eoa
  \* ---- HTTP read path ----
  holders,              \* the rows the latest get_holders_with_balances returned
  \* ---- the shared connection, statement by statement (SpecConnection) ----
  committed,            \* table balances as the latest commit left it on disk
  pending,              \* addresses whose statement the running update has not executed
  writing,              \* the store operation that is between its first statement and its commit
  snapshot,             \* table balances when that operation began (history)
  \* ---- one RPC call with its retry loop (SpecRetry) ----
  call,                 \* "get_current_block" or "fetch_transfer_events" ("none": no call yet)
  attempt,              \* the loop variable of for attempt in range(5)
  waits,                \* the asyncio.sleep times of the call so far, in seconds
  rpc_errors,           \* the texts of the exceptions the provider raised in the call (history)
  outcome,              \* "pending", "returned" or "raised"
  \* ---- check_and_cache_address_types inside sync (SpecPostBatch) ----
  unchecked,            \* the list get_unchecked_addresses returned to the running classifier
  cls_i,                \* the loop variable i of for i in range(0, len(unchecked), batch_size)
  \* ---- the tables of the database file, rows of every chain (SpecIsolation) ----
  db,                   \* [transfers, balances, address_types, sync_state]: sets of rows
  db_pending,           \* per chain: the balance changes its running update has not written
  db_chain,             \* the chain_id argument of the latest store call (0: none)
  \* ---- recheck_smart_wallets, sub-batch by sub-batch (SpecStable) ----
  contracts,            \* the list get_contract_addresses returned to the running recheck
  recheck_i             \* the loop variable i of for i in range(0, len(contracts), batch_size)

store == <<registered, transfers, balances, address_types, last_indexed_block, is_syncing>>
config == <<start_block, cfg_batch_size, chainlog>>
tables == <<transfers, balances, address_types>>
locals == <<current_block, end_block, batch_end, batch, consecutive_errors>>
indexer == <<pc, batch_size, current_chain_block, locals>>
crashlog == <<crashes, crash_pc, crash_transfers, crash_batch_end, rebuilt>>
history == <<fetched, applied, crashlog>>
harness == <<op, arg_items, arg_n, pre_lib, collided, dropped, nops>>
errlog == <<last_event, failed_req, failed_bs, nonrange_run, reduced_to>>
control == <<stop_requested, shutdown, stopped_at>>
multi == <<tasks, stop_flags, checkpoints, supervisor, stop_called, failure_mark>>
classifier == <<rpc, eoa_map, eoa_path, checked, holders>>
connection == <<committed, pending, writing, snapshot>>
rpccall == <<call, attempt, waits, rpc_errors, outcome>>
postbatch == <<unchecked, cls_i>>
database == <<db, db_pending, db_chain>>
recheck == <<contracts, recheck_i>>
vars == <<store, config, indexer, history, harness, errlog, control, multi, classifier,
          connection, rpccall, postbatch, database, recheck>>

\* ------------------------------------------------------------------------
\* Helpers on tables
\* ------------------------------------------------------------------------
EmptyTable == [a \in {} |-> 0]

Get(f, k, dflt) == IF k \in DOMAIN f THEN f[k] ELSE dflt
Put(f, k, v) == [x \in (DOMAIN f) \cup {k} |-> IF x = k THEN v ELSE f[x]]
Remove(f, k) == [x \in (DOMAIN f) \ {k} |-> f[x]]

\* UNIQUE(chain_id, tx_hash, log_index)
Key(t) == <<t.tx_hash, t.log_index>>
Keys(S) == {Key(t) : t \in S}

RECURSIVE SumValues(_)
SumValues(S) ==
  IF S = {} THEN 0
  ELSE LET t == CHOOSE x \in S : TRUE IN t.value + SumValues(S \ {t})

Min(a, b) == IF a < b THEN a ELSE b
Max(a, b) == IF a > b THEN a ELSE b

\* ------------------------------------------------------------------------
\* Store operations (app/database.py), as functions on the tables
\* ------------------------------------------------------------------------

\* INSERT OR REPLACE in place of INSERT OR IGNORE
RECURSIVE insert_or_replace_transfers(_, _)
insert_or_replace_transfers(tbl, items) ==
  IF items = <<>> THEN tbl
  ELSE LET t == Head(items)
       IN insert_or_replace_transfers({r \in tbl : Key(r) # Key(t)} \cup {t}, Tail(items))

\* Database.insert_transfers: executemany INSERT OR IGNORE, row by row
RECURSIVE insert_transfers(_, _)
insert_transfers(tbl, items) ==
  IF items = <<>> THEN tbl
  ELSE LET t == Head(items)
       IN insert_transfers(IF Key(t) \in Keys(tbl) THEN tbl ELSE tbl \cup {t}, Tail(items))

\* the loop that collects balance_changes: a dict address -> net change
RECURSIVE balance_changes(_, _)
balance_changes(items, acc) ==
  IF items = <<>> THEN acc
  ELSE LET t == Head(items)
           a1 == IF t.from_address # ZERO_ADDRESS
                 THEN Put(acc, t.from_address, Get(acc, t.from_address, 0) - t.value)
                 ELSE acc
           a2 == IF t.to_address # ZERO_ADDRESS
                 THEN Put(a1, t.to_address, Get(a1, t.to_address, 0) + t.value)
                 ELSE a1
       IN balance_changes(Tail(items), a2)

\* a write that keeps a row whose new balance is zero
apply_change_keep_zero(bal, address, change) ==
  LET current == Get(bal, address, 0)
      new_balance == current + change
  IN IF new_balance >= 0 THEN Put(bal, address, new_balance) ELSE Remove(bal, address)

\* the balance write of one address: upsert when positive, delete otherwise
apply_change(bal, address, change) ==
  LET current == Get(bal, address, 0)
      new_balance == current + change
  IN IF new_balance > 0 THEN Put(bal, address, new_balance) ELSE Remove(bal, address)

RECURSIVE apply_changes(_, _, _)
apply_changes(bal, changes, todo) ==
  IF todo = {} THEN bal
  ELSE LET a == CHOOSE x \in todo : TRUE
       IN apply_changes(apply_change(bal, a, changes[a]), changes, todo \ {a})

\* Database.update_balances_from_transfers
update_balances_from_transfers(bal, items) ==
  IF items = <<>> THEN bal
  ELSE LET changes == balance_changes(items, EmptyTable)
       IN apply_changes(bal, changes, DOMAIN changes)

\* SQLite keeps an INTEGER in 64 bits, signed.  The integers of the model checker
\* are narrower than that, so the width is scaled: SqliteIntegerBits stands for
\* 64, and the values of the specifications that look at wide numbers are chosen
\* around sqlite_max_integer.
SqliteIntegerBits == 30
sqlite_max_integer == 2^(SqliteIntegerBits - 1) - 1

\* CAST(text AS INTEGER): the number the decimal text spells, or the largest
\* integer when the text spells a larger one
cast_integer(v) == Min(v, sqlite_max_integer)

\* SUM(CAST(value AS INTEGER)) over the rows of one group, as a number
RECURSIVE sum_cast(_)
sum_cast(S) ==
  IF S = {} THEN 0
  ELSE LET t == CHOOSE x \in S : TRUE IN cast_integer(t.value) + sum_cast(S \ {t})

\* SUM() raises "integer overflow" when a sum of integers leaves the 64 bits
\* (the values are not negative, so it does when the whole sum is too large)
rebuild_raises(tbl) ==
  \/ \E a \in {t.to_address : t \in tbl} \ {ZERO_ADDRESS} :
       sum_cast({t \in tbl : t.to_address = a}) > sqlite_max_integer
  \/ \E a \in {t.from_address : t \in tbl} \ {ZERO_ADDRESS} :
       sum_cast({t \in tbl : t.from_address = a}) > sqlite_max_integer

\* Database.rebuild_all_balances: DELETE, then INSERT ... SELECT over transfers.
\* When the SELECT raises, the INSERT is undone and the DELETE stays in the open
\* transaction of the connection: the table reads empty, and the next commit of
\* any operation makes that durable.
rebuild_all_balances(tbl) ==
  LET in_rows == {t \in tbl : t.to_address # ZERO_ADDRESS}
      out_rows == {t \in tbl : t.from_address # ZERO_ADDRESS}
      incoming == [a \in {t.to_address : t \in in_rows} |->
                     sum_cast({t \in in_rows : t.to_address = a})]
      outgoing == [a \in {t.from_address : t \in out_rows} |->
                     sum_cast({t \in out_rows : t.from_address = a})]
      computed == [a \in (DOMAIN incoming) \cup (DOMAIN outgoing) |->
                     Get(incoming, a, 0) - Get(outgoing, a, 0)]
  IN IF rebuild_raises(tbl) THEN EmptyTable
     ELSE [a \in {x \in DOMAIN computed : computed[x] > 0} |-> computed[a]]

\* a call that writes nothing
update_last_indexed_block_skipped(current, n) == current

\* an UPDATE guarded by n >= current
update_last_indexed_block_guarded(current, n) == Max(current, n)

\* Database.update_last_indexed_block: UPDATE sync_state SET last_indexed_block = ?
update_last_indexed_block(current, n) == n

\* Database.get_holder_count(chain_id, eoa_only=False)
get_holder_count(bal) == Cardinality(DOMAIN bal)

\* register_chain writing its sync_state row with INSERT OR REPLACE
register_chain_replace(exists, current, sb) == sb - 1

\* Database.register_chain, the sync_state part: INSERT OR IGNORE (start_block - 1)
register_chain(exists, current, sb) == IF exists THEN current ELSE sb - 1

\* the is_syncing column of that INSERT OR IGNORE: VALUES (?, ?, 0)
register_chain_is_syncing(exists, current) == IF exists THEN current ELSE FALSE

\* ------------------------------------------------------------------------
\* RPC client (app/indexer.py)
\* ------------------------------------------------------------------------

\* one decoded log: (blockNumber, transactionHash, logIndex, from, to, value);
\* a block holds one transaction, its hash stands for the block's number
DecodeLog(b, i) ==
  [block_number |-> b, tx_hash |-> b, log_index |-> i - 1,
   from_address |-> chainlog[b][i].from_address,
   to_address |-> chainlog[b][i].to_address,
   value |-> chainlog[b][i].value]

BlockLogs(b) == [i \in 1..Len(chainlog[b]) |-> DecodeLog(b, i)]

\* w3.eth.get_logs over [from_block, to_block], ascending, provider order kept
RECURSIVE get_logs(_)
get_logs(blocks) ==
  IF blocks = {} THEN <<>>
  ELSE LET b == CHOOSE x \in blocks : \A y \in blocks : x <= y
       IN BlockLogs(b) \o get_logs(blocks \ {b})

\* ChainIndexer.fetch_transfer_events, the successful return
fetch_transfer_events(from_block, to_block) ==
  get_logs({b \in DOMAIN chainlog : from_block <= b /\ b <= to_block})

Range(seq) == {seq[i] : i \in DOMAIN seq}

\* ------------------------------------------------------------------------
\* ChainIndexer (app/indexer.py) and process lifecycle (app/main.py)
\* ------------------------------------------------------------------------

\* the checkpoint written when the process starts, without the test on last_indexed
sync_initial_checkpoint_always(current, sb) == update_last_indexed_block(current, sb - 1)

\* ChainIndexer.sync: if last_indexed < start_block: update_last_indexed_block(start_block - 1)
sync_initial_checkpoint(current, sb) ==
  IF current < sb THEN update_last_indexed_block(current, sb - 1) ELSE current

\* a checkpoint that marks the whole requested range
checkpoint_target_end_block(bend, eblock) == eblock

\* ChainIndexer.index_blocks: update_last_indexed_block(self.chain_id, batch_end)
checkpoint_target(bend, eblock) == bend

\* self._min_batch_size
min_batch_size == 100

\* a halving without the floor
reduce_batch_size_no_floor(bs) == bs \div 2

\* self._batch_size = max(self._min_batch_size, self._batch_size // 2)
reduce_batch_size(bs) == Max(min_batch_size, bs \div 2)

\* the reduction taken at the second failure in a row already
error_batch_size_after_two(bs, errors) ==
  IF errors >= 2 /\ bs > min_batch_size THEN reduce_batch_size(bs) ELSE bs

\* index_blocks, except branch: if consecutive_errors >= 3 and
\* self._batch_size > self._min_batch_size: reduce
error_batch_size(bs, errors) ==
  IF errors >= 3 /\ bs > min_batch_size THEN reduce_batch_size(bs) ELSE bs

\* a batch end that ignores the adaptive batch size
next_batch_end_whole_range(cur, bs, eblock) == eblock

\* (a wrong variant: the next batch starts one block after the block that
\* follows the batch)
next_current_block_skip(bend) == bend + 2

\* index_blocks: current_block = batch_end + 1
next_current_block(bend) == bend + 1

\* index_blocks: batch_end = min(current_block + self._batch_size - 1, end_block)
next_batch_end(cur, bs, eblock) == Min(cur + bs - 1, eblock)

NoIndexer ==
  /\ batch_size' = 0
  /\ current_chain_block' = 0
  /\ current_block' = 0
  /\ end_block' = 0
  /\ batch_end' = 0
  /\ batch' = <<>>
  /\ consecutive_errors' = 0

InitErrlog ==
  /\ last_event = "none"
  /\ failed_req = <<0, 0>>
  /\ failed_bs = 0
  /\ nonrange_run = 0
  /\ reduced_to = 0

ChainIds == {1, 369}

\* no MultiChainIndexer in the picture
InitMultiIdle ==
  /\ tasks = [c \in ChainIds |-> "none"]
  /\ stop_flags = [c \in ChainIds |-> FALSE]
  /\ checkpoints = [c \in ChainIds |-> 0]
  /\ supervisor = "idle"
  /\ stop_called = FALSE
  /\ failure_mark = [c \in ChainIds |-> 0]

\* no classification in the picture
InitClassifierIdle ==
  /\ rpc = <<>>
  /\ eoa_map = EmptyTable
  /\ eoa_path = "none"
  /\ checked = <<>>
  /\ holders = <<>>

InitControl ==
  /\ stop_requested = FALSE
  /\ shutdown = FALSE
  /\ stopped_at = "none"

\* the statements of a store operation are not looked at one by one
InitPostBatchIdle ==
  /\ unchecked = <<>>
  /\ cls_i = 0

\* no store call on the whole database yet; the tables hold no row
EmptyDatabase == [transfers |-> {}, balances |-> {}, address_types |-> {}, sync_state |-> {}]
InitDatabaseIdle ==
  /\ db = EmptyDatabase
  /\ db_pending = [c \in ChainIds |-> <<>>]
  /\ db_chain = 0

\* no recheck is running
InitRecheckIdle ==
  /\ contracts = <<>>
  /\ recheck_i = 0

InitRpcIdle ==
  /\ call = "none"
  /\ attempt = 0
  /\ waits = <<>>
  /\ rpc_errors = <<>>
  /\ outcome = "none"

InitConnectionIdle ==
  /\ committed = EmptyTable
  /\ pending = <<>>
  /\ writing = "none"
  /\ snapshot = EmptyTable

TypeOK ==
  /\ registered \in BOOLEAN
  /\ is_syncing \in BOOLEAN
  /\ last_indexed_block \in 0..MaxBlock
  /\ DOMAIN balances \subseteq Addresses
  /\ pc \in {"down", "created", "sync_checkpoint", "sync_rebuild", "sync_loop",
             "index_blocks", "fetched", "inserted", "balanced", "sleep", "store",
             "stopped", "failed"}

\* an empty store, no process running
InitEmpty ==
  /\ registered = FALSE
  /\ transfers = {}
  /\ balances = EmptyTable
  /\ address_types = EmptyTable
  /\ last_indexed_block = 0
  /\ is_syncing = FALSE
  /\ pc = "down"
  /\ batch_size = 0
  /\ current_chain_block = 0
  /\ current_block = 0
  /\ end_block = 0
  /\ batch_end = 0
  /\ batch = <<>>
  /\ consecutive_errors = 0
  /\ fetched = {}
  /\ applied = {}
  /\ crashes = 0
  /\ crash_pc = "none"
  /\ crash_transfers = {}
  /\ crash_batch_end = 0
  /\ rebuilt = FALSE
  /\ op = "none"
  /\ arg_items = <<>>
  /\ arg_n = 0
  /\ pre_lib = 0
  /\ collided = FALSE
  /\ dropped = FALSE
  /\ nops = 0
  /\ InitErrlog
  /\ InitControl
  /\ InitConnectionIdle
  /\ InitRpcIdle
  /\ InitPostBatchIdle
  /\ InitDatabaseIdle
  /\ InitRecheckIdle
  /\ InitMultiIdle

Init ==
  /\ InitEmpty
  /\ InitClassifierIdle
  /\ start_block \in StartBlocks
  /\ cfg_batch_size \in BatchSizes
  /\ chainlog \in [Blocks -> BlockContents]

\* lifespan startup: db.connect, MultiChainIndexer.initialize (register_chain,
\* ChainIndexer.__init__), then the sync task is created
StartWith(sb) ==
  /\ pc = "down"
  /\ start_block' = sb
  /\ registered' = TRUE
  /\ last_indexed_block' = register_chain(registered, last_indexed_block, sb)
  /\ is_syncing' = register_chain_is_syncing(registered, is_syncing)
  /\ batch_size' = cfg_batch_size
  /\ stop_requested' = FALSE
  /\ pc' = "created"
  /\ UNCHANGED <<tables, cfg_batch_size, chainlog, current_chain_block,
                 locals, history, harness, multi, classifier, connection, rpccall, postbatch, errlog, shutdown, stopped_at, database, recheck>>

Start == StartWith(start_block)

\* the process is started again with another START_BLOCK for the chain
Reconfigure ==
  /\ registered
  /\ \E sb \in StartBlocks \ {start_block} : StartWith(sb)

\* sync: set_syncing(True), self._stop_requested = False
SyncBegin ==
  /\ pc = "created"
  /\ is_syncing' = TRUE
  /\ stop_requested' = FALSE
  /\ pc' = "sync_checkpoint"
  /\ UNCHANGED <<registered, tables, last_indexed_block, config, batch_size,
                 current_chain_block, locals, history, harness, multi, classifier, connection, rpccall, postbatch, errlog, shutdown,
                 stopped_at, database, recheck>>

\* sync: get_last_indexed_block and the initial checkpoint
SyncCheckpoint ==
  /\ pc = "sync_checkpoint"
  /\ last_indexed_block' = sync_initial_checkpoint(last_indexed_block, start_block)
  /\ pc' = "sync_rebuild"
  /\ UNCHANGED <<registered, tables, is_syncing, config, batch_size,
                 current_chain_block, locals, history, harness, multi, classifier, connection, rpccall, postbatch, errlog, control, database, recheck>>

\* sync: rebuild the balances when there are none and the checkpoint has advanced
SyncRebuild ==
  /\ pc = "sync_rebuild"
  /\ IF get_holder_count(balances) = 0 /\ last_indexed_block >= start_block
     THEN /\ balances' = rebuild_all_balances(transfers)
          /\ IF rebuild_raises(transfers)
             THEN \* except Exception: raise; finally: set_syncing(False)
                  /\ pc' = "failed"
                  /\ stopped_at' = pc
                  /\ is_syncing' = FALSE
                  /\ UNCHANGED applied
             ELSE /\ pc' = "sync_loop"
                  /\ applied' = Keys(transfers)
                  /\ UNCHANGED <<stopped_at, is_syncing>>
          /\ rebuilt' = ~rebuild_raises(transfers)
     ELSE /\ pc' = "sync_loop"
          /\ UNCHANGED <<balances, applied, stopped_at, is_syncing, rebuilt>>
  /\ UNCHANGED <<registered, transfers, address_types, last_indexed_block,
                 config, batch_size, current_chain_block, locals, fetched,
                 crashes, crash_pc, crash_transfers, crash_batch_end,
                 harness, multi, classifier, connection, rpccall, postbatch, errlog, stop_requested, shutdown, database, recheck>>

\* sync: one turn of the continuous loop; h is the head get_current_block returns
SyncPollAt(h) ==
  /\ pc = "sync_loop"
  /\ ~stop_requested
  /\ current_chain_block' = h
  /\ IF h > last_indexed_block
     THEN /\ current_block' = last_indexed_block + 1
          /\ end_block' = h
          /\ consecutive_errors' = 0
          /\ pc' = "index_blocks"
     ELSE /\ pc' = "sleep"
          /\ UNCHANGED <<current_block, end_block, consecutive_errors>>
  /\ UNCHANGED <<store, config, batch_size, batch_end, batch, history, harness, multi, classifier, connection, rpccall, postbatch, errlog, control, database, recheck>>

SyncPoll == \E h \in 0..MaxBlock : SyncPollAt(h)

\* index_blocks: batch_end and the fetch of [current_block, batch_end]
IndexBlocksFetch ==
  /\ pc = "index_blocks"
  /\ current_block <= end_block
  /\ ~stop_requested
  /\ batch_end' = next_batch_end(current_block, batch_size, end_block)
  /\ batch' = fetch_transfer_events(current_block, batch_end')
  /\ fetched' = fetched \cup Range(batch')
  /\ pc' = "fetched"
  /\ UNCHANGED <<store, config, batch_size, current_chain_block, current_block,
                 end_block, consecutive_errors, applied, crashlog, harness, multi, classifier, connection, rpccall, postbatch, errlog, control, database, recheck>>

\* fetch_transfer_events raises an error whose text holds "range", "too large",
\* "timeout" or "exceeded": the batch size is reduced, index_blocks retries
IndexBlocksRangeError ==
  /\ pc = "index_blocks"
  /\ current_block <= end_block
  /\ ~stop_requested
  /\ consecutive_errors < MaxErrors
  /\ batch_end' = next_batch_end(current_block, batch_size, end_block)
  /\ batch_size' = reduce_batch_size(batch_size)
  /\ consecutive_errors' = consecutive_errors + 1
  /\ last_event' = "range_error"
  /\ failed_req' = <<current_block, batch_end'>>
  /\ failed_bs' = batch_size
  /\ nonrange_run' = 0
  /\ reduced_to' = batch_size'
  /\ UNCHANGED <<store, config, pc, current_chain_block, current_block, end_block,
                 batch, history, harness, multi, classifier, connection, rpccall, postbatch, control, database, recheck>>

\* fetch_transfer_events raises another error after its 5 attempts
IndexBlocksOtherError ==
  /\ pc = "index_blocks"
  /\ current_block <= end_block
  /\ ~stop_requested
  /\ consecutive_errors < MaxErrors
  /\ batch_end' = next_batch_end(current_block, batch_size, end_block)
  /\ consecutive_errors' = consecutive_errors + 1
  /\ batch_size' = error_batch_size(batch_size, consecutive_errors')
  /\ last_event' = "other_error"
  /\ failed_req' = <<current_block, batch_end'>>
  /\ failed_bs' = batch_size
  /\ nonrange_run' = nonrange_run + 1
  /\ UNCHANGED <<store, config, pc, current_chain_block, current_block, end_block,
                 batch, history, harness, multi, classifier, connection, rpccall, postbatch, reduced_to, control, database, recheck>>

\* index_blocks: if transfers: insert_transfers
IndexBlocksInsert ==
  /\ pc = "fetched"
  /\ batch # <<>>
  /\ transfers' = insert_transfers(transfers, batch)
  /\ pc' = "inserted"
  /\ UNCHANGED <<registered, balances, address_types, last_indexed_block, is_syncing,
                 config, batch_size, current_chain_block, locals, history, harness, multi, classifier, connection, rpccall, postbatch, errlog, control, database, recheck>>

\* index_blocks: update_balances_from_transfers
IndexBlocksUpdateBalances ==
  /\ pc = "inserted"
  /\ balances' = update_balances_from_transfers(balances, batch)
  /\ applied' = applied \cup Keys(Range(batch))
  /\ pc' = "balanced"
  /\ UNCHANGED <<registered, transfers, address_types, last_indexed_block, is_syncing,
                 config, batch_size, current_chain_block, locals, fetched, crashlog,
                 harness, multi, classifier, connection, rpccall, postbatch, errlog, control, database, recheck>>

\* index_blocks: update_last_indexed_block, current_block = batch_end + 1
IndexBlocksCheckpoint ==
  /\ \/ pc = "balanced"
     \/ pc = "fetched" /\ batch = <<>>
  /\ last_indexed_block' =
       update_last_indexed_block(last_indexed_block, checkpoint_target(batch_end, end_block))
  /\ current_block' = next_current_block(batch_end)
  /\ batch' = <<>>
  /\ consecutive_errors' = 0
  /\ last_event' = "none"
  /\ failed_req' = <<0, 0>>
  /\ failed_bs' = 0
  /\ nonrange_run' = 0
  /\ pc' = "index_blocks"
  /\ UNCHANGED <<registered, tables, is_syncing, config, batch_size,
                 current_chain_block, end_block, batch_end, history, harness, multi, classifier, connection, rpccall, postbatch,
                 reduced_to, control, database, recheck>>

\* index_blocks returns; sync goes to its 12 s sleep
IndexBlocksReturn ==
  /\ pc = "index_blocks"
  /\ current_block > end_block \/ stop_requested
  /\ current_block' = 0
  /\ end_block' = 0
  /\ batch_end' = 0
  /\ consecutive_errors' = 0
  /\ pc' = "sleep"
  /\ UNCHANGED <<store, config, batch_size, current_chain_block, batch, history, harness, multi, classifier, connection, rpccall, postbatch, errlog, control, database, recheck>>

\* sync: asyncio.sleep(12) is over
Sleep ==
  /\ pc = "sleep"
  /\ pc' = "sync_loop"
  /\ UNCHANGED <<store, config, batch_size, current_chain_block, locals, history, harness, multi, classifier, connection, rpccall, postbatch, errlog, control, database, recheck>>

\* the process dies; the committed store survives, the indexer object does not
Crash ==
  /\ pc # "down"
  /\ crashes < MaxCrashes
  /\ crashes' = crashes + 1
  /\ IF pc \in {"inserted", "balanced"}
     THEN /\ crash_pc' = pc
          /\ crash_transfers' = transfers
          /\ crash_batch_end' = batch_end
     ELSE UNCHANGED <<crash_pc, crash_transfers, crash_batch_end>>
  /\ rebuilt' = FALSE
  /\ pc' = "down"
  /\ NoIndexer
  /\ last_event' = "none"
  /\ failed_req' = <<0, 0>>
  /\ failed_bs' = 0
  /\ nonrange_run' = 0
  /\ reduced_to' = 0
  /\ UNCHANGED <<store, config, fetched, applied, harness, multi, classifier, connection, rpccall, postbatch, control, database, recheck>>

Next ==
  \/ Start
  \/ SyncBegin
  \/ SyncCheckpoint
  \/ SyncRebuild
  \/ SyncPoll
  \/ IndexBlocksFetch
  \/ IndexBlocksInsert
  \/ IndexBlocksUpdateBalances
  \/ IndexBlocksCheckpoint
  \/ IndexBlocksReturn
  \/ Sleep
  \/ Crash

Spec == Init /\ [][Next]_vars

\* ------------------------------------------------------------------------
\* The indexer with failing fetches and a start block that changes between
\* runs; the chain holds mints only (the checkpoint does not read the logs'
\* contents, only whether a batch is empty)
\* ------------------------------------------------------------------------
MintOnly == {<<>>, <<[from_address |-> ZERO_ADDRESS, to_address |-> "0xA", value |-> 1]>>}

InitCheckpoint ==
  /\ Init
  /\ \A b \in Blocks : chainlog[b] \in MintOnly

NextCheckpoint ==
  \/ Next
  \/ Reconfigure
  \/ IndexBlocksRangeError
  \/ IndexBlocksOtherError

SpecCheckpoint == InitCheckpoint /\ [][NextCheckpoint]_vars

\* ------------------------------------------------------------------------
\* The indexer on a long chain with batch sizes as they are configured, and an
\* RPC endpoint that fails: range errors, other errors that outlast the 5
\* attempts of fetch_transfer_events, and a get_current_block that outlasts
\* its 5 attempts
\* ------------------------------------------------------------------------
\* <<start_block, initial batch size>> of the chains considered
BatchConfigs == {<<1, 50>>, <<1, 150>>, <<100, 1000>>, <<100, 10000>>}
BatchHeads == {10099, 10300}

InitBatch ==
  /\ InitEmpty
  /\ InitClassifierIdle
  /\ \E cfg \in BatchConfigs : start_block = cfg[1] /\ cfg_batch_size = cfg[2]
  /\ chainlog = [b \in Blocks |->
                   <<[from_address |-> ZERO_ADDRESS, to_address |-> "0xA", value |-> 1]>>]

SyncPollBatch == \E h \in BatchHeads : SyncPollAt(h)

\* sync: get_current_block raises after its 5th attempt; the exception leaves
\* the while loop, passes except (re-raise) and finally (set_syncing(False)),
\* and ends the coroutine
SyncPollError ==
  /\ pc = "sync_loop"
  /\ ~stop_requested
  /\ is_syncing' = FALSE
  /\ stopped_at' = pc
  /\ pc' = "failed"
  /\ UNCHANGED <<registered, tables, last_indexed_block, config, batch_size,
                 current_chain_block, locals, history, harness, multi, classifier, connection, rpccall, postbatch, errlog,
                 stop_requested, shutdown, database, recheck>>

NextBatch ==
  \/ Start
  \/ SyncBegin
  \/ SyncCheckpoint
  \/ SyncRebuild
  \/ SyncPollBatch
  \/ SyncPollError
  \/ IndexBlocksFetch
  \/ IndexBlocksRangeError
  \/ IndexBlocksOtherError
  \/ IndexBlocksInsert
  \/ IndexBlocksUpdateBalances
  \/ IndexBlocksCheckpoint
  \/ IndexBlocksReturn
  \/ Sleep

SpecBatch == InitBatch /\ [][NextBatch]_vars

\* ------------------------------------------------------------------------
\* Stopping: ChainIndexer.stop() on its own, and the shutdown path of lifespan
\* (multi_indexer.stop(), then sync_task.cancel() with no await in between)
\* ------------------------------------------------------------------------
Live == pc \notin {"down", "store", "stopped", "failed"}

\* MultiChainIndexer.stop -> ChainIndexer.stop: self._stop_requested = True
StopRequested ==
  /\ Live
  /\ ~stop_requested
  /\ stop_requested' = TRUE
  /\ UNCHANGED <<store, config, indexer, history, harness, multi, classifier, connection, rpccall, postbatch, errlog, shutdown, stopped_at, database, recheck>>

\* lifespan shutdown: stop(), then cancel(); gather passes the cancellation to
\* the sync task, CancelledError is raised at the await the coroutine is
\* suspended in (a BaseException: the except of index_blocks lets it through),
\* the finally of sync sets is_syncing to False.  A task that has not run yet
\* ends without entering sync.
Shutdown ==
  /\ Live
  /\ ~shutdown
  /\ stop_requested' = TRUE
  /\ shutdown' = TRUE
  /\ stopped_at' = pc
  /\ pc' = "stopped"
  /\ is_syncing' = IF pc = "created" THEN is_syncing ELSE FALSE
  /\ UNCHANGED <<registered, tables, last_indexed_block, config, batch_size,
                 current_chain_block, locals, history, harness, multi, classifier, connection, rpccall, postbatch, errlog, database, recheck>>

\* sync: the while condition finds the stop flag set; finally: set_syncing(False)
SyncExit ==
  /\ pc = "sync_loop"
  /\ stop_requested
  /\ is_syncing' = FALSE
  /\ stopped_at' = pc
  /\ pc' = "stopped"
  /\ UNCHANGED <<registered, tables, last_indexed_block, config, batch_size,
                 current_chain_block, locals, history, harness, multi, classifier, connection, rpccall, postbatch, errlog,
                 stop_requested, shutdown, database, recheck>>

NextStop ==
  \/ Start
  \/ SyncBegin
  \/ SyncCheckpoint
  \/ SyncRebuild
  \/ SyncPoll
  \/ IndexBlocksFetch
  \/ IndexBlocksInsert
  \/ IndexBlocksUpdateBalances
  \/ IndexBlocksCheckpoint
  \/ IndexBlocksReturn
  \/ Sleep
  \/ StopRequested
  \/ Shutdown
  \/ SyncExit

SpecStop == Init /\ [][NextStop]_vars

\* ------------------------------------------------------------------------
\* MultiChainIndexer: one sync task per chain under asyncio.gather.  A task is
\* followed from loop head to loop head: a turn of its loop either indexes up
\* to the next checkpoint, ends with an exception, or finds the stop flag set.
\* ------------------------------------------------------------------------
single == <<store, config, indexer, history, harness, errlog, control>>

Ended == {"stopped", "failed"}

\* a gather that hands the first exception to its caller (return_exceptions=False)
gather_done_first_exception(t) ==
  \/ \E c \in DOMAIN t : t[c] = "failed"
  \/ \A c \in DOMAIN t : t[c] \in Ended

\* await asyncio.gather(*tasks, return_exceptions=True): done when every task is
gather_done(t) == \A c \in DOMAIN t : t[c] \in Ended

InitMulti ==
  /\ InitEmpty
  /\ InitClassifierIdle
  /\ start_block = 1
  /\ cfg_batch_size = 1
  /\ chainlog = [b \in Blocks |-> <<>>]

\* MultiChainIndexer.initialize: register_chain and ChainIndexer(...) per chain
Initialize ==
  /\ supervisor = "idle"
  /\ pc = "down"
  /\ supervisor' = "initialized"
  /\ checkpoints' = [c \in ChainIds |-> register_chain(FALSE, 0, start_block)]
  /\ stop_flags' = [c \in ChainIds |-> FALSE]
  /\ UNCHANGED <<single, tasks, stop_called, failure_mark, classifier, connection, rpccall, postbatch, database, recheck>>

\* sync_all: create_task(indexer.sync()) for every chain, then await gather
SyncAll ==
  /\ supervisor = "initialized"
  /\ tasks' = [c \in ChainIds |-> "created"]
  /\ supervisor' = "gathering"
  /\ UNCHANGED <<single, stop_flags, checkpoints, stop_called, failure_mark, classifier, connection, rpccall, postbatch, database, recheck>>

\* the first step of a sync coroutine: set_syncing(True), self._stop_requested = False
TaskBegin(c) ==
  /\ tasks[c] = "created"
  /\ tasks' = [tasks EXCEPT ![c] = "running"]
  /\ stop_flags' = [stop_flags EXCEPT ![c] = FALSE]
  /\ UNCHANGED <<single, checkpoints, supervisor, stop_called, failure_mark, classifier, connection, rpccall, postbatch, database, recheck>>

\* a turn of the continuous loop that indexes a batch of the chain
TaskAdvance(c) ==
  /\ tasks[c] = "running"
  /\ ~stop_flags[c]
  /\ checkpoints[c] < MaxBlock
  /\ checkpoints' = [checkpoints EXCEPT ![c] = update_last_indexed_block(@, @ + 1)]
  /\ UNCHANGED <<single, tasks, stop_flags, supervisor, stop_called, failure_mark, classifier, connection, rpccall, postbatch, database, recheck>>

\* sync raises (get_current_block after its 5 attempts, a store error outside
\* index_blocks): the task ends with the exception
TaskFail(c) ==
  /\ tasks[c] = "running"
  /\ ~stop_flags[c]
  /\ tasks' = [tasks EXCEPT ![c] = "failed"]
  /\ failure_mark' = checkpoints
  /\ UNCHANGED <<single, stop_flags, checkpoints, supervisor, stop_called, classifier, connection, rpccall, postbatch, database, recheck>>

\* a turn of the loop that finds the chain indexed up to its head (or has just
\* indexed it): await asyncio.sleep(12)
TaskSleep(c) ==
  /\ tasks[c] = "running"
  /\ ~stop_flags[c]
  /\ tasks' = [tasks EXCEPT ![c] = "sleeping"]
  /\ UNCHANGED <<single, stop_flags, checkpoints, supervisor, stop_called, failure_mark,
                 classifier, connection, rpccall, postbatch, database, recheck>>

\* the sleep is over: back to the while condition
TaskWake(c) ==
  /\ tasks[c] = "sleeping"
  /\ tasks' = [tasks EXCEPT ![c] = "running"]
  /\ UNCHANGED <<single, stop_flags, checkpoints, supervisor, stop_called, failure_mark,
                 classifier, connection, rpccall, postbatch, database, recheck>>

\* while not self._stop_requested: the loop ends, sync returns
TaskObserveStop(c) ==
  /\ tasks[c] = "running"
  /\ stop_flags[c]
  /\ tasks' = [tasks EXCEPT ![c] = "stopped"]
  /\ UNCHANGED <<single, stop_flags, checkpoints, supervisor, stop_called, failure_mark,
                 classifier, connection, rpccall, postbatch, database, recheck>>

\* MultiChainIndexer.stop: a plain function, sets the flags and returns
MultiStop ==
  /\ supervisor = "gathering"
  /\ ~stop_called
  /\ stop_called' = TRUE
  /\ stop_flags' = [c \in ChainIds |-> TRUE]
  /\ UNCHANGED <<single, tasks, checkpoints, supervisor, failure_mark, classifier, connection, rpccall, postbatch, database, recheck>>

\* sync_all returns from gather
GatherReturn ==
  /\ supervisor = "gathering"
  /\ gather_done(tasks)
  /\ supervisor' = "returned"
  /\ UNCHANGED <<single, tasks, stop_flags, checkpoints, stop_called, failure_mark,
                 classifier, connection, rpccall, postbatch, database, recheck>>

NextMulti ==
  \/ Initialize
  \/ SyncAll
  \/ \E c \in ChainIds : TaskBegin(c)
  \/ \E c \in ChainIds : TaskAdvance(c)
  \/ \E c \in ChainIds : TaskFail(c)
  \/ \E c \in ChainIds : TaskSleep(c)
  \/ \E c \in ChainIds : TaskWake(c)
  \/ \E c \in ChainIds : TaskObserveStop(c)
  \/ MultiStop
  \/ GatherReturn

SpecMulti == InitMulti /\ [][NextMulti]_vars

\* the next step of the task of chain c, whatever it is
TaskStep(c) ==
  \/ TaskBegin(c)
  \/ TaskAdvance(c)
  \/ TaskFail(c)
  \/ TaskSleep(c)
  \/ TaskWake(c)
  \/ TaskObserveStop(c)

\* the event loop runs every task that is ready: a created task takes its first
\* step, a sleeping task wakes up, a task at the head of its loop takes a turn
\* or, with the flag set, leaves the loop
SpecMultiLive ==
  /\ InitMulti
  /\ [][NextMulti]_vars
  /\ \A c \in ChainIds : WF_vars(TaskStep(c))

\* ------------------------------------------------------------------------
\* Address classification (batch_check_eoa, _fallback_check_eoa,
\* is_smart_wallet).  A string is a sequence of one-character strings; the
\* code of an address on the chain is a sequence of bytes, a byte being its two
\* lower-case hex digits.
\* ------------------------------------------------------------------------
UpperLetters == <<"A", "B", "C", "D", "E", "F", "G", "H", "I", "J", "K", "L", "M",
                  "N", "O", "P", "Q", "R", "S", "T", "U", "V", "W", "X", "Y", "Z">>
LowerLetters == <<"a", "b", "c", "d", "e", "f", "g", "h", "i", "j", "k", "l", "m",
                  "n", "o", "p", "q", "r", "s", "t", "u", "v", "w", "x", "y", "z">>
ToLower == [c \in Range(UpperLetters) |->
              LowerLetters[CHOOSE i \in DOMAIN UpperLetters : UpperLetters[i] = c]]
ToUpper == [c \in {"a", "b", "c", "d", "e", "f"} |->
              CASE c = "a" -> "A" [] c = "b" -> "B" [] c = "c" -> "C" [] c = "d" -> "D"
                [] c = "e" -> "E" [] c = "f" -> "F"]

\* str.lower()
lower(str) == [i \in 1..Len(str) |-> IF str[i] \in DOMAIN ToLower THEN ToLower[str[i]] ELSE str[i]]
upper(str) == [i \in 1..Len(str) |-> IF str[i] \in DOMAIN ToUpper THEN ToUpper[str[i]] ELSE str[i]]

\* str.startswith(prefix)
startswith(str, prefix) ==
  Len(str) >= Len(prefix) /\ SubSeq(str, 1, Len(prefix)) = prefix

Str0x == <<"0", "x">>

SMART_WALLET_PATTERNS ==
  << <<"0", "x", "e", "f", "0", "1">>,
     <<"0", "x", "e", "f", "0", "1", "0", "0">>,
     <<"0", "x", "3", "6", "3", "d", "3", "d", "3", "7", "3", "d", "3", "d", "3", "d",
       "3", "6", "3", "d", "7", "3">> >>

\* a comparison with the patterns that keeps the case of the code
is_smart_wallet_case_sensitive(code) ==
  IF code = <<>> \/ code = Str0x THEN FALSE
  ELSE \E i \in DOMAIN SMART_WALLET_PATTERNS : startswith(code, SMART_WALLET_PATTERNS[i])

\* is_smart_wallet(code)
is_smart_wallet(code) ==
  IF code = <<>> \/ code = Str0x THEN FALSE
  ELSE \E i \in DOMAIN SMART_WALLET_PATTERNS :
         startswith(lower(code), lower(SMART_WALLET_PATTERNS[i]))

\* the digits of bytes.hex()
RECURSIVE hexdigits(_)
hexdigits(bytes) ==
  IF bytes = <<>> THEN <<>> ELSE Head(bytes) \o hexdigits(Tail(bytes))

\* code.hex() of the HexBytes that w3.eth.get_code returns: with the 0x prefix
\* or without it, depending on the hexbytes release installed
hex(bytes, prefixed) == IF prefixed THEN Str0x \o hexdigits(bytes) ELSE hexdigits(bytes)

\* byte codes an address may hold
NoCode == <<>>
Erc4337Code == << <<"e", "f">>, <<"0", "1">>, <<"0", "0">>, <<"a", "b">> >>
Eip1167Code ==
  << <<"3", "6">>, <<"3", "d">>, <<"3", "d">>, <<"3", "7">>, <<"3", "d">>, <<"3", "d">>,
     <<"3", "d">>, <<"3", "6">>, <<"3", "d">>, <<"7", "3">>, <<"b", "e">> >>
Eip1167Cut == SubSeq(Eip1167Code, 1, 9)
ContractCode == << <<"6", "0">>, <<"8", "0">> >>
OtherEfCode == << <<"e", "f">>, <<"0", "0">>, <<"0", "1">> >>
ByteCodes == {NoCode, Erc4337Code, Eip1167Code, Eip1167Cut, ContractCode, OtherEfCode}

ClassifiedAddresses == <<"0xA", "0xB">>
RequestIds == 0..(Len(ClassifiedAddresses) - 1)

\* the provider: the code of each address, how it writes a result (upper-case
\* digits, "" for no code), which ids it answers with a result, with an error
\* object or not at all, in which order, whether the whole POST fails, and
\* which addresses fail in the per-address fallback
Providers ==
  [code : [{"0xA", "0xB"} -> ByteCodes],
   upper_case : BOOLEAN,
   blank_for_empty : BOOLEAN,
   answer : [RequestIds -> {"result", "error", "absent"}],
   reversed : BOOLEAN,
   post_fails : BOOLEAN,
   get_code_fails : SUBSET {"0xA", "0xB"},
   hex_prefixed : BOOLEAN]

\* the "result" string of eth_getCode for an address
RenderCode(p, addr) ==
  IF p.code[addr] = NoCode
  THEN IF p.blank_for_empty THEN <<>> ELSE Str0x
  ELSE Str0x \o (IF p.upper_case THEN upper(hexdigits(p.code[addr]))
                                ELSE hexdigits(p.code[addr]))

\* one element of the JSON-RPC batch response
ResponseEntry(p, addresses, i) ==
  [id |-> i,
   has_result |-> p.answer[i] = "result",
   result |-> IF p.answer[i] = "result" THEN RenderCode(p, addresses[i + 1]) ELSE <<>>]

\* the entries of the given ids, in ascending order of id
RECURSIVE EntriesAscending(_, _, _)
EntriesAscending(p, addresses, ids) ==
  IF ids = {} THEN <<>>
  ELSE LET i == CHOOSE x \in ids : \A y \in ids : x <= y
       IN <<ResponseEntry(p, addresses, i)>> \o EntriesAscending(p, addresses, ids \ {i})

Reverse(seq) == [k \in 1..Len(seq) |-> seq[Len(seq) + 1 - k]]

\* response.json(): the array the provider sends back
Response(p, addresses) ==
  LET asc == EntriesAscending(p, addresses,
                              {i \in 0..(Len(addresses) - 1) : p.answer[i] # "absent"})
  IN IF p.reversed THEN Reverse(asc) ELSE asc

NoResult == [id |-> -1, has_result |-> FALSE, result |-> <<>>]

\* the response taken by its position in the array
find_result_by_position(results, i) ==
  IF i + 1 \in DOMAIN results THEN results[i + 1] ELSE NoResult

\* next((r for r in results if r.get("id") == i), None)
find_result(results, i) ==
  LET hits == {k \in DOMAIN results : results[k].id = i}
  IN IF hits = {} THEN NoResult
     ELSE results[CHOOSE k \in hits : \A m \in hits : k <= m]

\* batch_check_eoa, the loop over the parsed results
batch_check_eoa(addresses, results) ==
  [addr \in Range(addresses) |->
     LET i == (CHOOSE k \in DOMAIN addresses : addresses[k] = addr) - 1
         result == find_result(results, i)
     IN IF result.has_result
        THEN LET code == result.result
             IN IF code = Str0x \/ code = <<>> THEN TRUE
                ELSE IF is_smart_wallet(code) THEN TRUE
                ELSE FALSE
        ELSE FALSE]

\* _fallback_check_eoa
fallback_check_eoa(p, addresses) ==
  [addr \in Range(addresses) |->
     IF addr \in p.get_code_fails THEN FALSE
     ELSE LET code == p.code[addr]
              code_hex == hex(code, p.hex_prefixed)
          IN IF code = <<>> \/ code_hex = Str0x \/ code_hex = <<>> THEN TRUE
             ELSE IF is_smart_wallet(IF ~startswith(code_hex, Str0x)
                                     THEN Str0x \o code_hex ELSE code_hex) THEN TRUE
             ELSE FALSE]

\* Database.batch_set_address_types: INSERT OR REPLACE per (address, is_eoa)
batch_set_address_types(types, results) ==
  [a \in (DOMAIN types) \cup (DOMAIN results) |->
     IF a \in DOMAIN results THEN results[a] ELSE types[a]]

InitClassify ==
  /\ InitEmpty
  /\ start_block = 1
  /\ cfg_batch_size = 1
  /\ chainlog = [b \in Blocks |-> <<>>]
  /\ rpc \in Providers
  /\ eoa_map = EmptyTable
  /\ eoa_path = "none"
  /\ checked = <<>>
  /\ holders = <<>>

\* one sub-batch of check_and_cache_address_types, answered by the batch request
BatchCheckEoa ==
  /\ eoa_path = "none"
  /\ ~rpc.post_fails
  /\ eoa_map' = batch_check_eoa(ClassifiedAddresses, Response(rpc, ClassifiedAddresses))
  /\ eoa_path' = "batch"
  /\ checked' = ClassifiedAddresses
  /\ address_types' = batch_set_address_types(address_types, eoa_map')
  /\ UNCHANGED <<registered, transfers, balances, last_indexed_block, is_syncing, config,
                 indexer, history, harness, errlog, control, multi, rpc, holders, connection, rpccall, postbatch, database, recheck>>

\* one sub-batch, the POST raising: except -> _fallback_check_eoa
FallbackCheckEoa ==
  /\ eoa_path = "none"
  /\ rpc.post_fails
  /\ eoa_map' = fallback_check_eoa(rpc, ClassifiedAddresses)
  /\ eoa_path' = "fallback"
  /\ checked' = ClassifiedAddresses
  /\ address_types' = batch_set_address_types(address_types, eoa_map')
  /\ UNCHANGED <<registered, transfers, balances, last_indexed_block, is_syncing, config,
                 indexer, history, harness, errlog, control, multi, rpc, holders, connection, rpccall, postbatch, database, recheck>>

NextClassify ==
  \/ BatchCheckEoa
  \/ FallbackCheckEoa

SpecClassify == InitClassify /\ [][NextClassify]_vars

\* ------------------------------------------------------------------------
\* Holders: indexing, classification (check_and_cache_address_types), the
\* recheck of contracts (recheck_smart_wallets) and the holder queries, over a
\* provider whose answers and whose account codes change between calls.
\* ------------------------------------------------------------------------
MaxCalls == 3        \* writing calls per behaviour of the holders specification

\* the rows of the two tables a holder query joins
BalanceRows(bal) == {[address |-> a, balance |-> bal[a]] : a \in DOMAIN bal}
TypeRows(types) == {[address |-> a, is_eoa |-> types[a]] : a \in DOMAIN types}

\* a LEFT JOIN that keeps the balances without an address_types row
eoa_join_left(bal, types) ==
  {b \in BalanceRows(bal) : b.address \notin DOMAIN types \/ types[b.address]}

\* FROM balances b INNER JOIN address_types at ON b.address = at.address
\* WHERE at.is_eoa = 1
eoa_join(bal, types) ==
  {bt[1] : bt \in {x \in BalanceRows(bal) \X TypeRows(types) :
                     x[1].address = x[2].address /\ x[2].is_eoa}}

\* the lists that hold every element of S once
Orderings(S) ==
  {seq \in [1..Cardinality(S) -> S] :
     \A i, j \in 1..Cardinality(S) : i # j => seq[i] # seq[j]}

\* Database.get_holders_with_balances: the lists the SELECT may return, rows
\* with equal sort keys in any order
get_holders_with_balances(bal, types, eoa_only) ==
  LET rows == IF eoa_only THEN eoa_join(bal, types) ELSE BalanceRows(bal)
  IN {seq \in Orderings(rows) :
        \A i, j \in DOMAIN seq :
          i < j => cast_integer(seq[i].balance) >= cast_integer(seq[j].balance)}

\* Database.get_holder_count(chain_id, eoa_only=True)
get_holder_count_eoa_only(bal, types) == Cardinality(eoa_join(bal, types))

\* a query without the NOT IN (SELECT address FROM address_types ...) filter
get_unchecked_addresses_every_address(tbl, types) ==
  {a \in {t.from_address : t \in tbl} \cup {t.to_address : t \in tbl} :
     a # ZERO_ADDRESS}

\* every address of the transfers, ZERO included
get_unchecked_addresses_with_zero(tbl, types) ==
  {a \in {t.from_address : t \in tbl} \cup {t.to_address : t \in tbl} :
     a \notin DOMAIN types}

\* Database.get_unchecked_addresses: the addresses of the transfers that have no
\* address_types row, ZERO left out
get_unchecked_addresses(tbl, types) ==
  {a \in {t.from_address : t \in tbl} \cup {t.to_address : t \in tbl} :
     a \notin DOMAIN types /\ a # ZERO_ADDRESS}

\* Database.get_contract_addresses: SELECT address ... WHERE is_eoa = 0
get_contract_addresses(types) == {a \in DOMAIN types : ~types[a]}

\* the dict one call of batch_check_eoa returns, fallback included
check_eoa(p, addresses) ==
  IF addresses = <<>> THEN EmptyTable
  ELSE IF p.post_fails THEN fallback_check_eoa(p, addresses)
  ELSE batch_check_eoa(addresses, Response(p, addresses))

\* an update list that promotes every rechecked address
recheck_updates_every_address(results) == [a \in DOMAIN results |-> TRUE]

\* recheck_smart_wallets: updates = [(addr, True) for addr, is_eoa in
\* eoa_results.items() if is_eoa]
recheck_updates(results) == [a \in {x \in DOMAIN results : results[x]} |-> TRUE]

HolderCodes == {NoCode, Erc4337Code, ContractCode}
\* the providers of this specification: no account code at ZERO and at 0xB; the
\* batch request is answered, with an error object for id 0 or without, or it
\* fails and the per-address calls succeed or fail for 0xA
HolderProviders ==
  {p \in [code : {c \in [Addresses -> HolderCodes] :
                    c[ZERO_ADDRESS] = NoCode /\ c["0xB"] = NoCode},
          upper_case : {FALSE},
          blank_for_empty : {FALSE},
          answer : {f \in [RequestIds -> {"result", "error"}] : f[1] = "result"},
          reversed : {FALSE},
          post_fails : BOOLEAN,
          get_code_fails : {{}, {"0xA"}},
          hex_prefixed : {TRUE}] :
     IF p.post_fails THEN p.answer[0] = "result" ELSE p.get_code_fails = {}}

\* the Transfer logs a block of this specification may hold: a mint to either
\* address, a transfer, a burn
HolderEvents ==
  {e \in Events : <<e.from_address, e.to_address>> \in
     {<<ZERO_ADDRESS, "0xA">>, <<ZERO_ADDRESS, "0xB">>, <<"0xA", "0xB">>,
      <<"0xA", ZERO_ADDRESS>>}}

InitHolders ==
  /\ InitEmpty
  /\ start_block = 1
  /\ cfg_batch_size = 1
  /\ chainlog \in [Blocks -> {<<e>> : e \in HolderEvents}]
  /\ rpc \in HolderProviders
  /\ eoa_map = EmptyTable
  /\ eoa_path = "none"
  /\ checked = <<>>
  /\ holders = <<>>

\* a writing call of the holders specification
HolderCall(name) ==
  /\ nops < MaxCalls
  /\ nops' = nops + 1
  /\ op' = name
  /\ UNCHANGED <<arg_items, arg_n, pre_lib, collided, dropped>>

\* one iteration of index_blocks over the next block
IndexBatch ==
  LET n == last_indexed_block + 1
      items == fetch_transfer_events(n, n)
  IN /\ n \in Blocks
     /\ HolderCall("index_blocks")
     /\ IF items # <<>>
        THEN /\ transfers' = insert_transfers(transfers, items)
             /\ balances' = update_balances_from_transfers(balances, items)
        ELSE UNCHANGED <<transfers, balances>>
     /\ last_indexed_block' = update_last_indexed_block(last_indexed_block, n)
     /\ UNCHANGED <<registered, address_types, is_syncing, config, indexer, history,
                    errlog, control, multi, classifier, connection, rpccall, postbatch, database, recheck>>

\* check_and_cache_address_types, the unchecked addresses in the order the
\* SELECT returned them
CheckAndCacheAddressTypes ==
  \E addresses \in Orderings(get_unchecked_addresses(transfers, address_types)) :
    /\ HolderCall("check_and_cache_address_types")
    /\ IF addresses = <<>> \/ stop_requested
       THEN /\ checked' = <<>>
            /\ eoa_map' = EmptyTable
            /\ eoa_path' = "none"
            /\ UNCHANGED address_types
       ELSE /\ checked' = addresses
            /\ eoa_map' = check_eoa(rpc, addresses)
            /\ eoa_path' = IF rpc.post_fails THEN "fallback" ELSE "batch"
            /\ address_types' = batch_set_address_types(address_types, eoa_map')
    /\ UNCHANGED <<registered, transfers, balances, last_indexed_block, is_syncing, config,
                   indexer, history, errlog, control, multi, rpc, holders, connection, rpccall, postbatch, database, recheck>>

\* recheck_smart_wallets
RecheckSmartWallets ==
  \E listed \in Orderings(get_contract_addresses(address_types)) :
    /\ HolderCall("recheck_smart_wallets")
    /\ IF listed = <<>>
       THEN /\ checked' = <<>>
            /\ eoa_map' = EmptyTable
            /\ eoa_path' = "none"
            /\ UNCHANGED address_types
       ELSE /\ checked' = listed
            /\ eoa_map' = check_eoa(rpc, listed)
            /\ eoa_path' = IF rpc.post_fails THEN "fallback" ELSE "batch"
            /\ address_types' = IF DOMAIN recheck_updates(eoa_map') # {}
                                THEN batch_set_address_types(address_types,
                                                             recheck_updates(eoa_map'))
                                ELSE address_types
    /\ UNCHANGED <<registered, transfers, balances, last_indexed_block, is_syncing, config,
                   indexer, history, errlog, control, multi, rpc, holders, connection, rpccall, postbatch, database, recheck>>

\* the chain and the provider between two calls: an account gets code (a
\* deployment, a delegation), the provider starts or stops answering
ProviderChange ==
  /\ rpc' \in HolderProviders
  /\ rpc' # rpc
  /\ UNCHANGED <<store, config, indexer, history, harness, errlog, control, multi,
                 eoa_map, eoa_path, checked, holders, connection, rpccall, postbatch, database, recheck>>

\* GET /holders: get_holders_with_balances(chain_id, eoa_only)
GetHolders ==
  \E eoa_only \in BOOLEAN :
    /\ holders' \in get_holders_with_balances(balances, address_types, eoa_only)
    /\ op' = IF eoa_only THEN "get_holders_eoa_only" ELSE "get_holders"
    /\ UNCHANGED <<store, config, indexer, history, arg_items, arg_n, pre_lib, collided,
                   dropped, nops, errlog, control, multi, rpc, eoa_map, eoa_path, checked,
                   connection, rpccall, postbatch, database, recheck>>

NextHolders ==
  \/ IndexBatch
  \/ CheckAndCacheAddressTypes
  \/ RecheckSmartWallets
  \/ ProviderChange
  \/ GetHolders

SpecHolders == InitHolders /\ [][NextHolders]_vars

\* ------------------------------------------------------------------------
\* The store called directly, with arbitrary arguments
\* ------------------------------------------------------------------------
TxHashes == {1, 2}
Pairs == {<<ZERO_ADDRESS, "0xA">>, <<"0xA", ZERO_ADDRESS>>, <<"0xA", "0xB">>}
Items ==
  {[block_number |-> h, tx_hash |-> h, log_index |-> 0,
    from_address |-> p[1], to_address |-> p[2], value |-> v] :
      h \in TxHashes, p \in Pairs, v \in Values}
ItemLists == {<<>>} \cup {<<x>> : x \in Items} \cup {<<x, y>> : x \in Items, y \in Items}

InitStore ==
  /\ registered = TRUE
  /\ transfers = {}
  /\ balances = EmptyTable
  /\ address_types = [a \in {"0xA"} |-> TRUE]
  /\ start_block \in StartBlocks
  /\ last_indexed_block = start_block - 1
  /\ is_syncing = FALSE
  /\ cfg_batch_size = 1
  /\ chainlog = [b \in Blocks |-> <<>>]
  /\ pc = "store"
  /\ batch_size = 0
  /\ current_chain_block = 0
  /\ current_block = 0
  /\ end_block = 0
  /\ batch_end = 0
  /\ batch = <<>>
  /\ consecutive_errors = 0
  /\ fetched = {}
  /\ applied = {}
  /\ crashes = 0
  /\ crash_pc = "none"
  /\ crash_transfers = {}
  /\ crash_batch_end = 0
  /\ rebuilt = FALSE
  /\ op = "none"
  /\ arg_items = <<>>
  /\ arg_n = 0
  /\ pre_lib = 0
  /\ collided = FALSE
  /\ dropped = FALSE
  /\ nops = 0
  /\ InitErrlog
  /\ InitControl
  /\ InitConnectionIdle
  /\ InitRpcIdle
  /\ InitPostBatchIdle
  /\ InitDatabaseIdle
  /\ InitRecheckIdle
  /\ InitMultiIdle
  /\ InitClassifierIdle

Called(name, items, n) ==
  /\ pc = "store"
  /\ nops < MaxOps
  /\ nops' = nops + 1
  /\ op' = name
  /\ arg_items' = items
  /\ arg_n' = n
  /\ pre_lib' = last_indexed_block
  /\ UNCHANGED <<registered, address_types, is_syncing, config, indexer, history, errlog,
                 control, multi, classifier, connection, rpccall, postbatch, database, recheck>>

Collides(tbl, items) ==
  \E i \in DOMAIN items : Key(items[i]) \in Keys(tbl) /\ items[i] \notin tbl

Drops(bal, items) ==
  LET changes == balance_changes(items, EmptyTable)
  IN \E a \in DOMAIN changes : Get(bal, a, 0) + changes[a] <= 0

CallInsertTransfers ==
  \E items \in ItemLists :
    /\ Called("insert_transfers", <<>>, 0)
    /\ transfers' = insert_transfers(transfers, items)
    /\ collided' = Collides(transfers, items)
    /\ UNCHANGED <<balances, last_indexed_block, dropped>>

CallUpdateBalances ==
  \E items \in ItemLists :
    /\ Called("update_balances_from_transfers", items, 0)
    /\ balances' = update_balances_from_transfers(balances, items)
    /\ dropped' = Drops(balances, items)
    /\ UNCHANGED <<transfers, last_indexed_block, collided>>

CallRebuildAllBalances ==
  /\ Called(IF rebuild_raises(transfers) THEN "rebuild_all_balances raised"
            ELSE "rebuild_all_balances", <<>>, 0)
  /\ balances' = rebuild_all_balances(transfers)
  /\ UNCHANGED <<transfers, last_indexed_block, collided, dropped>>

CallUpdateLastIndexedBlock ==
  \E n \in 0..MaxBlock :
    /\ Called("update_last_indexed_block", <<>>, n)
    /\ last_indexed_block' = update_last_indexed_block(last_indexed_block, n)
    /\ UNCHANGED <<transfers, balances, collided, dropped>>

\* the three writes of one index_blocks iteration, for the batch items and the
\* range end n
ProcessBatch ==
  \E items \in ItemLists, n \in Blocks :
    /\ Called("process_batch", items, n)
    /\ IF items # <<>>
       THEN /\ transfers' = insert_transfers(transfers, items)
            /\ balances' = update_balances_from_transfers(balances, items)
       ELSE UNCHANGED <<transfers, balances>>
    /\ last_indexed_block' = update_last_indexed_block(last_indexed_block, n)
    /\ UNCHANGED <<collided, dropped>>

NextStore ==
  \/ CallInsertTransfers
  \/ CallUpdateBalances
  \/ CallRebuildAllBalances
  \/ CallUpdateLastIndexedBlock
  \/ ProcessBatch

SpecStore == InitStore /\ [][NextStore]_vars

\* ------------------------------------------------------------------------
\* Wide values: transfers whose value is around the largest integer SQLite
\* holds, indexed block by block, then queried and rebuilt.
\* ------------------------------------------------------------------------
WideValues == {1, sqlite_max_integer, sqlite_max_integer + 1}

\* the Transfer logs a block of this specification may hold: a mint to either
\* address, a transfer of 1 from 0xA to 0xB
WideEvents ==
  {e \in [from_address : Addresses, to_address : Addresses, value : WideValues] :
     \/ e.from_address = ZERO_ADDRESS /\ e.to_address # ZERO_ADDRESS
     \/ e.from_address = "0xA" /\ e.to_address = "0xB" /\ e.value = 1}

\* a registered chain, nothing indexed, no sync task: the store is called directly
InitRegisteredWith(bs) ==
  /\ registered = TRUE
  /\ transfers = {}
  /\ balances = EmptyTable
  /\ address_types = EmptyTable
  /\ start_block = 1
  /\ last_indexed_block = start_block - 1
  /\ is_syncing = FALSE
  /\ cfg_batch_size = 1
  /\ pc = "store"
  /\ batch_size = bs
  /\ current_chain_block = 0
  /\ current_block = 0
  /\ end_block = 0
  /\ batch_end = 0
  /\ batch = <<>>
  /\ consecutive_errors = 0
  /\ fetched = {}
  /\ applied = {}
  /\ crashes = 0
  /\ crash_pc = "none"
  /\ crash_transfers = {}
  /\ crash_batch_end = 0
  /\ rebuilt = FALSE
  /\ op = "none"
  /\ arg_items = <<>>
  /\ arg_n = 0
  /\ pre_lib = 0
  /\ collided = FALSE
  /\ dropped = FALSE
  /\ nops = 0
  /\ InitErrlog
  /\ InitControl
  /\ InitConnectionIdle
  /\ InitRpcIdle
  /\ InitPostBatchIdle
  /\ InitDatabaseIdle
  /\ InitRecheckIdle
  /\ InitMultiIdle
  /\ InitClassifierIdle

InitRegistered == InitRegisteredWith(0)

InitWide ==
  /\ InitRegistered
  /\ chainlog \in [Blocks -> {<<e>> : e \in WideEvents}]

NextWide ==
  \/ IndexBatch
  \/ CallRebuildAllBalances
  \/ GetHolders

SpecWide == InitWide /\ [][NextWide]_vars

\* ------------------------------------------------------------------------
\* Store failures inside a batch.  The three store calls of index_blocks are
\* inside its try: an exception of any of them is handled like a failed fetch
\* that is no range error.  Here a store call that raises has written nothing,
\* the case that asks least of the retry; the chain holds mints only and the
\* process does not die, so that plain indexing keeps the balances exact.
\* ------------------------------------------------------------------------

\* insert_transfers (pc = "fetched", a batch with transfers),
\* update_balances_from_transfers (pc = "inserted") or update_last_indexed_block
\* (pc = "balanced", or "fetched" with an empty batch) raises: except Exception,
\* consecutive_errors += 1, sleep(5), continue
IndexBlocksStoreError ==
  /\ pc \in {"fetched", "inserted", "balanced"}
  /\ consecutive_errors < MaxErrors
  /\ consecutive_errors' = consecutive_errors + 1
  /\ batch_size' = error_batch_size(batch_size, consecutive_errors')
  /\ last_event' = "store_error"
  /\ failed_req' = <<current_block, batch_end>>
  /\ failed_bs' = batch_size
  /\ nonrange_run' = nonrange_run + 1
  /\ pc' = "index_blocks"
  /\ UNCHANGED <<store, config, current_chain_block, current_block, end_block, batch_end,
                 batch, history, harness, multi, classifier, connection, rpccall, postbatch, reduced_to, control, database, recheck>>

NextStoreError ==
  \/ Start
  \/ SyncBegin
  \/ SyncCheckpoint
  \/ SyncRebuild
  \/ SyncPoll
  \/ IndexBlocksFetch
  \/ IndexBlocksInsert
  \/ IndexBlocksUpdateBalances
  \/ IndexBlocksCheckpoint
  \/ IndexBlocksReturn
  \/ Sleep
  \/ IndexBlocksStoreError

SpecStoreError == InitCheckpoint /\ [][NextStoreError]_vars

\* ------------------------------------------------------------------------
\* The shared connection.  Database holds one aiosqlite connection
\* (self._connection) for every coroutine of the process: the sync task of
\* each chain and the HTTP handlers.  Each await conn.execute(...) and each
\* await conn.commit() is a suspension point; SQLite keeps one transaction per
\* connection, a SELECT on the connection reads what its open transaction has
\* written, and a commit commits whatever the connection has written so far.
\* Here the statements of update_balances_from_transfers and of
\* rebuild_all_balances are steps of their own.
\* ------------------------------------------------------------------------

\* the keys of balance_changes in the order the dict got them
RECURSIVE change_order(_, _)
change_order(items, acc) ==
  IF items = <<>> THEN acc
  ELSE LET t == Head(items)
           a1 == IF t.from_address # ZERO_ADDRESS /\ t.from_address \notin Range(acc)
                 THEN Append(acc, t.from_address) ELSE acc
           a2 == IF t.to_address # ZERO_ADDRESS /\ t.to_address \notin Range(a1)
                 THEN Append(a1, t.to_address) ELSE a1
       IN change_order(Tail(items), a2)

InitConnection ==
  /\ InitRegistered
  /\ chainlog \in [Blocks -> {<<e>> : e \in HolderEvents}]

\* index_blocks: insert_transfers (executemany and commit), then
\* update_balances_from_transfers up to its first statement
UpdateBalancesBegin ==
  LET n == last_indexed_block + 1
      items == fetch_transfer_events(n, n)
  IN /\ writing = "none"
     /\ n \in Blocks
     /\ items # <<>>
     /\ transfers' = insert_transfers(transfers, items)
     /\ committed' = balances
     /\ snapshot' = balances
     /\ pending' = change_order(items, <<>>)
     /\ writing' = "update_balances_from_transfers"
     /\ arg_items' = items
     /\ op' = "insert_transfers"
     /\ UNCHANGED <<registered, balances, address_types, last_indexed_block, is_syncing,
                    config, indexer, history, arg_n, pre_lib, collided, dropped, nops, errlog,
                    control, multi, classifier, rpccall, postbatch, database, recheck>>

\* one turn of the loop over balance_changes: the SELECT and the INSERT OR
\* REPLACE or DELETE of one address
UpdateBalancesStatement ==
  /\ writing = "update_balances_from_transfers"
  /\ pending # <<>>
  /\ balances' = apply_change(balances, Head(pending),
                              balance_changes(arg_items, EmptyTable)[Head(pending)])
  /\ pending' = Tail(pending)
  /\ op' = "execute"
  /\ UNCHANGED <<registered, transfers, address_types, last_indexed_block, is_syncing,
                 config, indexer, history, arg_items, arg_n, pre_lib, collided, dropped, nops,
                 errlog, control, multi, classifier, rpccall, postbatch, committed, writing, snapshot, database, recheck>>

\* the commit of update_balances_from_transfers, then update_last_indexed_block
UpdateBalancesCommit ==
  /\ writing = "update_balances_from_transfers"
  /\ pending = <<>>
  /\ committed' = balances
  /\ writing' = "none"
  /\ last_indexed_block' = update_last_indexed_block(last_indexed_block,
                                                     last_indexed_block + 1)
  /\ op' = "commit"
  /\ UNCHANGED <<registered, tables, is_syncing, config, indexer, history, arg_items, arg_n,
                 pre_lib, collided, dropped, nops, errlog, control, multi, classifier, rpccall, postbatch,
                 pending, snapshot, database, recheck>>

\* rebuild_all_balances: DELETE FROM balances
RebuildDelete ==
  /\ writing = "none"
  /\ transfers # {}
  /\ snapshot' = balances
  /\ committed' = balances
  /\ balances' = EmptyTable
  /\ writing' = "rebuild_all_balances"
  /\ op' = "execute"
  /\ UNCHANGED <<registered, transfers, address_types, last_indexed_block, is_syncing,
                 config, indexer, history, arg_items, arg_n, pre_lib, collided, dropped, nops,
                 errlog, control, multi, classifier, rpccall, postbatch, pending, database, recheck>>

\* rebuild_all_balances: INSERT INTO balances ... SELECT, and the commit
RebuildInsert ==
  /\ writing = "rebuild_all_balances"
  /\ balances' = rebuild_all_balances(transfers)
  /\ committed' = balances'
  /\ writing' = "none"
  /\ op' = "commit"
  /\ UNCHANGED <<registered, transfers, address_types, last_indexed_block, is_syncing,
                 config, indexer, history, arg_items, arg_n, pre_lib, collided, dropped, nops,
                 errlog, control, multi, classifier, rpccall, postbatch, pending, snapshot, database, recheck>>

\* the sync task of another chain commits its own update_last_indexed_block on
\* the connection
OtherChainCommit ==
  \E c \in ChainIds :
    /\ c # 1
    /\ checkpoints[c] < MaxBlock
    /\ checkpoints' = [checkpoints EXCEPT ![c] = @ + 1]
    /\ committed' = balances
    /\ op' = "commit of chain " \o ToString(c)
    /\ UNCHANGED <<store, config, indexer, history, arg_items, arg_n, pre_lib, collided,
                   dropped, nops, errlog, control, tasks, stop_flags, supervisor, stop_called,
                   failure_mark, classifier, rpccall, postbatch, pending, writing, snapshot, database, recheck>>

\* the process dies: what was committed is what the next process finds
ConnectionCrash ==
  /\ writing \notin {"none", "crashed"}
  /\ crashes < MaxCrashes
  /\ crashes' = crashes + 1
  /\ crash_pc' = writing
  /\ balances' = committed
  /\ writing' = "crashed"
  /\ op' = "crash"
  /\ UNCHANGED <<registered, transfers, address_types, last_indexed_block, is_syncing,
                 config, indexer, fetched, applied, crash_transfers, crash_batch_end, rebuilt,
                 arg_items, arg_n, pre_lib, collided, dropped, nops, errlog, control, multi,
                 classifier, rpccall, postbatch, committed, pending, snapshot, database, recheck>>

NextConnection ==
  \/ UpdateBalancesBegin
  \/ UpdateBalancesStatement
  \/ UpdateBalancesCommit
  \/ RebuildDelete
  \/ RebuildInsert
  \/ OtherChainCommit
  \/ GetHolders
  \/ ConnectionCrash

SpecConnection == InitConnection /\ [][NextConnection]_vars

\* ------------------------------------------------------------------------
\* The event loop.  The sync tasks of all chains and the HTTP handlers are
\* coroutines of one asyncio loop, which runs on one thread.  self.w3 is
\* Web3(Web3.HTTPProvider(...)) and batch_check_eoa uses requests.post: both
\* are called without an await, so the coroutine that makes the call keeps the
\* thread until the call returns, and no other coroutine runs meanwhile.
\* ------------------------------------------------------------------------
RpcMethods == {"eth_blockNumber", "eth_getLogs", "eth_getCode"}

\* the position from which a sync task makes each call
CallSite ==
  [m \in RpcMethods |->
     CASE m = "eth_blockNumber" -> "running"
       [] m = "eth_getLogs" -> "polled"
       [] m = "eth_getCode" -> "indexed"]

\* no coroutine is inside a call that keeps the thread
LoopFree == \A c \in ChainIds : tasks[c] \notin RpcMethods

\* the first step of a sync coroutine, run by the loop
LoopTaskBegin(c) == LoopFree /\ TaskBegin(c)

\* self.w3.eth.block_number, self.w3.eth.get_logs(event_filter),
\* requests.post(rpc_url, json=batch_requests, timeout=60): the request goes out
RpcCall(c) ==
  \E m \in RpcMethods :
    /\ LoopFree
    /\ tasks[c] = CallSite[m]
    /\ tasks' = [tasks EXCEPT ![c] = m]
    /\ UNCHANGED <<single, stop_flags, checkpoints, supervisor, stop_called, failure_mark,
                   classifier, connection, rpccall, postbatch, database, recheck>>

\* the call returns with its result: the head (a turn with nothing to index goes
\* to its sleep), the logs of the batch (stored and checkpointed), the codes
RpcReturn(c) ==
  /\ tasks[c] \in RpcMethods
  /\ tasks' = [tasks EXCEPT ![c] =
                 CASE tasks[c] = "eth_blockNumber" ->
                        IF checkpoints[c] < MaxBlock THEN "polled" ELSE "sleeping"
                   [] tasks[c] = "eth_getLogs" -> "indexed"
                   [] tasks[c] = "eth_getCode" -> "sleeping"]
  /\ checkpoints' = IF tasks[c] = "eth_getLogs"
                    THEN [checkpoints EXCEPT ![c] = update_last_indexed_block(@, @ + 1)]
                    ELSE checkpoints
  /\ UNCHANGED <<single, stop_flags, supervisor, stop_called, failure_mark, classifier,
                 connection, rpccall, postbatch, database, recheck>>

\* await asyncio.sleep(12) is over: the loop resumes the coroutine
LoopTaskWake(c) == LoopFree /\ TaskWake(c)

\* GET /holders, served by a coroutine of the same loop
HttpGetHolders ==
  /\ LoopFree
  /\ supervisor = "gathering"
  /\ GetHolders

\* a step of the sync task of chain c that the loop has to schedule
LoopStep(c) ==
  \/ LoopTaskBegin(c)
  \/ RpcCall(c)
  \/ LoopTaskWake(c)

NextLoop ==
  \/ Initialize
  \/ SyncAll
  \/ \E c \in ChainIds : LoopTaskBegin(c)
  \/ \E c \in ChainIds : RpcCall(c)
  \/ \E c \in ChainIds : RpcReturn(c)
  \/ \E c \in ChainIds : LoopTaskWake(c)
  \/ HttpGetHolders

SpecLoop == InitMulti /\ [][NextLoop]_vars

\* ------------------------------------------------------------------------
\* One RPC call with its retry loop: get_current_block and
\* fetch_transfer_events run for attempt in range(5); the provider answers
\* an attempt or raises an exception with one of a few texts.
\* ------------------------------------------------------------------------

\* sub in str
contains(str, sub) ==
  \E i \in 0..(Len(str) - Len(sub)) : SubSeq(str, i + 1, i + Len(sub)) = sub

RANGE_WORDS ==
  { <<"r", "a", "n", "g", "e">>,
    <<"t", "o", "o", " ", "l", "a", "r", "g", "e">>,
    <<"t", "i", "m", "e", "o", "u", "t">>,
    <<"e", "x", "c", "e", "e", "d", "e", "d">> }

\* (a wrong variant: the text is searched as the provider wrote it)
is_range_error_case_sensitive(e) ==
  \E w \in RANGE_WORDS : contains(e, w)

\* error_str = str(e).lower(); "range" in error_str or "too large" in error_str
\* or "timeout" in error_str or "exceeded" in error_str
is_range_error(e) ==
  LET error_str == lower(e)
  IN \E w \in RANGE_WORDS : contains(error_str, w)

\* wait_time = min(30, 2 ** attempt)
wait_time(n) == Min(30, 2^n)

\* if attempt < 4: sleep and go on; else: raise
is_last_attempt(n) == ~(n < 4)

ReadTimeout == <<"R", "e", "a", "d", " ", "T", "i", "m", "e", "o", "u", "t">>
BlockRange == <<"b", "l", "o", "c", "k", " ", "r", "a", "n", "g", "e">>
TooLarge == <<"R", "e", "s", "p", "o", "n", "s", "e", " ", "t", "o", "o", " ", "l", "a", "r", "g", "e">>
LimitExceeded == <<"L", "I", "M", "I", "T", " ", "E", "X", "C", "E", "E", "D", "E", "D">>
BadGateway == <<"5", "0", "2", " ", "B", "a", "d", " ", "G", "a", "t", "e", "w", "a", "y">>
ErrorTexts == {ReadTimeout, BlockRange, TooLarge, LimitExceeded, BadGateway}

RetryBatchSizes == {100, 1000}

InitRetry ==
  /\ \E bs \in RetryBatchSizes : InitRegisteredWith(bs)
  /\ chainlog = [b \in Blocks |-> <<>>]

\* get_current_block() or fetch_transfer_events(from_block, to_block) is called
RpcBegin(name) ==
  /\ outcome # "pending"
  /\ call' = name
  /\ attempt' = 0
  /\ waits' = <<>>
  /\ rpc_errors' = <<>>
  /\ outcome' = "pending"
  /\ UNCHANGED <<store, config, indexer, history, harness, errlog, control, multi,
                 classifier, connection, postbatch, database, recheck>>

\* the provider answers the attempt: return
AttemptReturns ==
  /\ outcome = "pending"
  /\ outcome' = "returned"
  /\ UNCHANGED <<store, config, indexer, history, harness, errlog, control, multi,
                 classifier, connection, postbatch, call, attempt, waits, rpc_errors, database, recheck>>

\* the provider raises e in the attempt.  fetch_transfer_events reduces the
\* batch size and re-raises when the text is a range error; otherwise, and always
\* in get_current_block, the call sleeps and goes to the next attempt, or
\* re-raises in the last one
AttemptRaises(e) ==
  /\ outcome = "pending"
  /\ rpc_errors' = Append(rpc_errors, e)
  /\ IF call = "fetch_transfer_events" /\ is_range_error(e)
     THEN /\ batch_size' = reduce_batch_size(batch_size)
          /\ outcome' = "raised"
          /\ UNCHANGED <<attempt, waits>>
     ELSE /\ IF is_last_attempt(attempt)
             THEN /\ outcome' = "raised"
                  /\ UNCHANGED <<attempt, waits>>
             ELSE /\ waits' = Append(waits, wait_time(attempt))
                  /\ attempt' = attempt + 1
                  /\ UNCHANGED outcome
          /\ UNCHANGED batch_size
  /\ UNCHANGED <<store, config, pc, current_chain_block, locals, history, harness, errlog,
                 control, multi, classifier, connection, postbatch, call, database, recheck>>

NextRetry ==
  \/ RpcBegin("get_current_block")
  \/ RpcBegin("fetch_transfer_events")
  \/ AttemptReturns
  \/ \E e \in ErrorTexts : AttemptRaises(e)

SpecRetry == InitRetry /\ [][NextRetry]_vars

\* ------------------------------------------------------------------------
\* Backfill to a head that stands still, with a provider that may reject or
\* fail any get_logs request and any get_current_block call, without a bound on
\* how often.  The counters of consecutive failures are kept at MaxErrors once
\* they reach it (the code reads them only in consecutive_errors >= 3).
\* Fairness: the event loop runs the coroutine, so a step is taken whenever one
\* can be; a get_logs request for at most min_batch_size blocks that is sent
\* again and again is answered at some time.
\* ------------------------------------------------------------------------
LiveConfigs == {<<1, 50>>, <<1, 150>>, <<1, 1000>>}
LiveHead == 350

InitLive ==
  /\ InitEmpty
  /\ InitClassifierIdle
  /\ \E cfg \in LiveConfigs : start_block = cfg[1] /\ cfg_batch_size = cfg[2]
  /\ chainlog = [b \in Blocks |->
                   <<[from_address |-> ZERO_ADDRESS, to_address |-> "0xA", value |-> 1]>>]

SyncPollLive == SyncPollAt(LiveHead)

\* fetch_transfer_events raises a range error, any number of times in a row
LiveRangeError ==
  /\ pc = "index_blocks"
  /\ current_block <= end_block
  /\ ~stop_requested
  /\ batch_end' = next_batch_end(current_block, batch_size, end_block)
  /\ batch_size' = reduce_batch_size(batch_size)
  /\ consecutive_errors' = Min(consecutive_errors + 1, MaxErrors)
  /\ last_event' = "range_error"
  /\ failed_req' = <<current_block, batch_end'>>
  /\ failed_bs' = batch_size
  /\ nonrange_run' = 0
  /\ reduced_to' = batch_size'
  /\ UNCHANGED <<store, config, pc, current_chain_block, current_block, end_block,
                 batch, history, harness, multi, classifier, connection, rpccall, postbatch, control, database, recheck>>

\* fetch_transfer_events raises another error after its 5 attempts, any number
\* of times in a row
LiveOtherError ==
  /\ pc = "index_blocks"
  /\ current_block <= end_block
  /\ ~stop_requested
  /\ batch_end' = next_batch_end(current_block, batch_size, end_block)
  /\ consecutive_errors' = Min(consecutive_errors + 1, MaxErrors)
  /\ batch_size' = error_batch_size(batch_size, consecutive_errors')
  /\ last_event' = "other_error"
  /\ failed_req' = <<current_block, batch_end'>>
  /\ failed_bs' = batch_size
  /\ nonrange_run' = Min(nonrange_run + 1, MaxErrors)
  /\ UNCHANGED <<store, config, pc, current_chain_block, current_block, end_block,
                 batch, history, harness, multi, classifier, connection, rpccall, postbatch, reduced_to,
                 control, database, recheck>>

NextLive ==
  \/ Start
  \/ SyncBegin
  \/ SyncCheckpoint
  \/ SyncRebuild
  \/ SyncPollLive
  \/ SyncPollError
  \/ IndexBlocksFetch
  \/ LiveRangeError
  \/ LiveOtherError
  \/ IndexBlocksInsert
  \/ IndexBlocksUpdateBalances
  \/ IndexBlocksCheckpoint
  \/ IndexBlocksReturn
  \/ Sleep

\* a get_logs request for at most min_batch_size blocks is answered
SmallFetch ==
  /\ IndexBlocksFetch
  /\ batch_end' - current_block + 1 <= min_batch_size

SpecLive ==
  /\ InitLive
  /\ [][NextLive]_vars
  /\ WF_vars(NextLive)
  /\ SF_vars(SmallFetch)

\* ------------------------------------------------------------------------
\* The classifier inside sync: check_and_cache_address_types is called when
\* index_blocks has returned, and works through the unchecked addresses in
\* sub-batches with a look at the stop flag before each.  The sub-batch size,
\* 100 in the source, is scaled down to keep the tables small; the chain of this
\* specification mints to up to classify_batch_size + 1 new addresses per
\* block, so that a run of the classifier has one or two sub-batches; stop()
\* may come at any await.
\* ------------------------------------------------------------------------
classify_batch_size == 3      \* batch_size = 100 of check_and_cache_address_types, scaled

\* the n-th holder address of this specification
PostAddress(n) == "0x" \o ToString(n)

MaxPost == MaxBlock * classify_batch_size + 1
AllPost == [n \in 1..MaxPost |-> PostAddress(n)]

\* the mints of block b when it holds k transfers: to the addresses
\* (b - 1) * size + 1 .. (b - 1) * size + k with size = classify_batch_size; the
\* address after a full sub-batch of a block is the first of the next block
PostBlock(b, k) ==
  [i \in 1..k |-> [from_address |-> ZERO_ADDRESS,
                   to_address |-> PostAddress((b - 1) * classify_batch_size + i),
                   value |-> 1]]

PostCounts == {0, 1, classify_batch_size + 1}

\* the providers of this specification: code at the second address only; the
\* batch request is answered in full, or with an error object for id 0, or it
\* fails and the addresses are asked one by one
PostProviders ==
  {p \in [code : {[a \in Range(AllPost) |->
                     IF a = PostAddress(2) THEN ContractCode ELSE NoCode]},
          upper_case : {FALSE},
          blank_for_empty : {FALSE},
          answer : {[i \in 0..(classify_batch_size - 1) |-> "result"],
                    [i \in 0..(classify_batch_size - 1) |->
                       IF i = 0 THEN "error" ELSE "result"]},
          reversed : {FALSE},
          post_fails : BOOLEAN,
          get_code_fails : {{}},
          hex_prefixed : {TRUE}] :
     p.post_fails => p.answer[0] = "result"}

InitPostBatch ==
  /\ InitEmpty
  /\ start_block = 1
  /\ cfg_batch_size \in BatchSizes
  /\ \E k \in [Blocks -> PostCounts] : chainlog = [b \in Blocks |-> PostBlock(b, k[b])]
  /\ rpc \in PostProviders
  /\ eoa_map = EmptyTable
  /\ eoa_path = "none"
  /\ checked = <<>>
  /\ holders = <<>>

\* the lists the SELECT of get_unchecked_addresses may return for the set S
\* (the order of the rows is not stated by the query): ascending and descending
UncheckedLists(S) ==
  LET asc == SelectSeq(AllPost, LAMBDA a : a \in S)
  IN {asc, Reverse(asc)}

\* (a wrong variant: the next sub-batch starts one address late)
next_sub_batch_skip(i) == i + classify_batch_size + 1

\* for i in range(0, len(unchecked), batch_size)
next_sub_batch(i) == i + classify_batch_size

\* batch = unchecked[i:i + batch_size]
sub_batch(list, i) == SubSeq(list, i + 1, Min(i + classify_batch_size, Len(list)))

\* index_blocks returns and sync calls check_and_cache_address_types:
\* get_unchecked_addresses; if not unchecked: return (sync goes to its sleep)
IndexBlocksReturnClassify ==
  /\ pc = "index_blocks"
  /\ current_block > end_block \/ stop_requested
  /\ current_block' = 0
  /\ end_block' = 0
  /\ batch_end' = 0
  /\ consecutive_errors' = 0
  /\ unchecked' \in UncheckedLists(get_unchecked_addresses(transfers, address_types))
  /\ cls_i' = 0
  /\ pc' = IF unchecked' = <<>> THEN "sleep" ELSE "classify"
  /\ UNCHANGED <<store, config, batch_size, current_chain_block, batch, history, harness,
                 multi, classifier, connection, rpccall, errlog, control, database, recheck>>

\* one turn of the for loop: the flag is not set, batch_check_eoa,
\* batch_set_address_types, asyncio.sleep(0.1)
ClassifySubBatch ==
  /\ pc = "classify"
  /\ cls_i < Len(unchecked)
  /\ ~stop_requested
  /\ checked' = sub_batch(unchecked, cls_i)
  /\ eoa_map' = check_eoa(rpc, checked')
  /\ eoa_path' = IF rpc.post_fails THEN "fallback" ELSE "batch"
  /\ address_types' = batch_set_address_types(address_types, eoa_map')
  /\ cls_i' = next_sub_batch(cls_i)
  /\ UNCHANGED <<registered, transfers, balances, last_indexed_block, is_syncing, config,
                 indexer, history, harness, errlog, control, multi, rpc, holders,
                 connection, rpccall, unchecked, database, recheck>>

\* the for loop is over, or if self._stop_requested: break; sync goes to its
\* sleep
ClassifyEnd ==
  /\ pc = "classify"
  /\ cls_i >= Len(unchecked) \/ stop_requested
  /\ pc' = "sleep"
  /\ UNCHANGED <<store, config, batch_size, current_chain_block, locals, history, harness,
                 multi, classifier, connection, rpccall, postbatch, errlog, control, database, recheck>>

NextPostBatch ==
  \/ Start
  \/ SyncBegin
  \/ SyncCheckpoint
  \/ SyncRebuild
  \/ SyncPoll
  \/ IndexBlocksFetch
  \/ IndexBlocksInsert
  \/ IndexBlocksUpdateBalances
  \/ IndexBlocksCheckpoint
  \/ IndexBlocksReturnClassify
  \/ ClassifySubBatch
  \/ ClassifyEnd
  \/ Sleep
  \/ StopRequested
  \/ SyncExit

SpecPostBatch == InitPostBatch /\ [][NextPostBatch]_vars

\* ------------------------------------------------------------------------
\* SpecIsolation: the store calls of two chains on the one database file.  The
\* tables hold the rows of every chain, each row with its chain_id column, and
\* every statement is applied to the whole table with its WHERE clause and the
\* key of the table.  The workers of the two chains call the store in any order
\* and update_balances_from_transfers runs statement by statement, so that
\* calls of the other chain fall between its SELECT and write pairs.  The
\* tables are the rows the shared connection reads.
\* ------------------------------------------------------------------------

\* transfers: UNIQUE(chain_id, tx_hash, log_index)
transfers_key(r) == <<r.chain_id, r.tx_hash, r.log_index>>

\* a key of balances that leaves the chain out
balances_key_address_only(r) == <<0, r.address>>

\* balances: PRIMARY KEY (chain_id, address)
balances_key(r) == <<r.chain_id, r.address>>

\* address_types: PRIMARY KEY (chain_id, address)
address_types_key(r) == <<r.chain_id, r.address>>

\* Database.register_chain on sync_state: INSERT OR IGNORE (chain_id,
\* start_block - 1, 0); sync_state has PRIMARY KEY chain_id
db_register_chain(tbl, cid, sb) ==
  IF \E r \in tbl : r.chain_id = cid THEN tbl
  ELSE tbl \cup {[chain_id |-> cid, last_indexed_block |-> sb - 1, is_syncing |-> FALSE]}

\* Database.insert_transfers: executemany INSERT OR IGNORE of (chain_id, ...)
RECURSIVE db_insert_transfers(_, _, _)
db_insert_transfers(tbl, cid, items) ==
  IF items = <<>> THEN tbl
  ELSE LET t == Head(items)
           row == [chain_id |-> cid, block_number |-> t.block_number,
                   tx_hash |-> t.tx_hash, log_index |-> t.log_index,
                   from_address |-> t.from_address, to_address |-> t.to_address,
                   value |-> t.value]
           ignored == \E r \in tbl : transfers_key(r) = transfers_key(row)
       IN db_insert_transfers(IF ignored THEN tbl ELSE tbl \cup {row}, cid, Tail(items))

\* the dict balance_changes as the list its items() yields: (address, change)
\* in the order the addresses were first seen
db_balance_changes(items) ==
  LET order == change_order(items, <<>>)
      changes == balance_changes(items, EmptyTable)
  IN [i \in 1..Len(order) |-> <<order[i], changes[order[i]]>>]

\* one turn of the loop of update_balances_from_transfers: SELECT balance WHERE
\* chain_id = ? AND address = ?, then INSERT OR REPLACE (chain_id, address,
\* balance) or DELETE WHERE chain_id = ? AND address = ?
db_update_balance(tbl, cid, address, change) ==
  LET found == {r \in tbl : r.chain_id = cid /\ r.address = address}
      current == IF found = {} THEN 0 ELSE (CHOOSE r \in found : TRUE).balance
      new_balance == current + change
      row == [chain_id |-> cid, address |-> address, balance |-> new_balance]
  IN IF new_balance > 0
     THEN {r \in tbl : balances_key(r) # balances_key(row)} \cup {row}
     ELSE {r \in tbl : ~(r.chain_id = cid /\ r.address = address)}

\* Database.rebuild_all_balances: DELETE FROM balances WHERE chain_id = ?, then
\* INSERT the sums over the transfers WHERE chain_id = ?
db_rebuild_all_balances(bal, trs, cid) ==
  LET kept == {r \in bal : r.chain_id # cid}
      computed == rebuild_all_balances({t \in trs : t.chain_id = cid})
  IN kept \cup {[chain_id |-> cid, address |-> a, balance |-> computed[a]] :
                  a \in DOMAIN computed}

\* Database.update_last_indexed_block: UPDATE sync_state SET last_indexed_block
\* = ? WHERE chain_id = ?
db_update_last_indexed_block(tbl, cid, n) ==
  {IF r.chain_id = cid THEN [r EXCEPT !.last_indexed_block = n] ELSE r : r \in tbl}

\* Database.set_syncing: UPDATE sync_state SET is_syncing = ? WHERE chain_id = ?
db_set_syncing(tbl, cid, flag) ==
  {IF r.chain_id = cid THEN [r EXCEPT !.is_syncing = flag] ELSE r : r \in tbl}

\* Database.batch_set_address_types: executemany INSERT OR REPLACE of
\* (chain_id, addr, is_eoa)
RECURSIVE db_batch_set_address_types(_, _, _)
db_batch_set_address_types(tbl, cid, results) ==
  IF results = <<>> THEN tbl
  ELSE LET row == [chain_id |-> cid, address |-> Head(results)[1],
                   is_eoa |-> Head(results)[2]]
       IN db_batch_set_address_types(
            {r \in tbl : address_types_key(r) # address_types_key(row)} \cup {row},
            cid, Tail(results))

\* the lists of transfers the workers pass: the same transaction hashes and
\* addresses on both chains
DbMint == [block_number |-> 1, tx_hash |-> 1, log_index |-> 0,
           from_address |-> ZERO_ADDRESS, to_address |-> "0xA", value |-> 1]
DbMove == [block_number |-> 2, tx_hash |-> 2, log_index |-> 0,
           from_address |-> "0xA", to_address |-> "0xB", value |-> 1]
DbLists == {<<>>, <<DbMint>>, <<DbMove>>, <<DbMint, DbMove>>}
DbResults == {<<<<"0xA", TRUE>>>>, <<<<"0xA", FALSE>>, <<"0xB", TRUE>>>>}

\* main.py registers every chain before it starts the indexers
InitIsolation ==
  /\ InitStore
  /\ start_block = 1

DbFrame ==
  UNCHANGED <<store, config, indexer, history, errlog, control, multi, classifier,
              connection, rpccall, postbatch, recheck>>

DbRegisterChain(c) ==
  /\ ~(\E r \in db.sync_state : r.chain_id = c)
  /\ db' = [db EXCEPT !.sync_state = db_register_chain(@, c, start_block)]
  /\ op' = "register_chain"
  /\ db_chain' = c
  /\ UNCHANGED <<arg_items, arg_n, pre_lib, collided, dropped, nops, db_pending>>
  /\ DbFrame

\* a worker calls the store for its own chain, one call after the other
DbCall(name, c) ==
  /\ \E r \in db.sync_state : r.chain_id = c
  /\ db_pending[c] = <<>>
  /\ HolderCall(name)
  /\ db_chain' = c
  /\ DbFrame

DbInsertTransfers(c) ==
  \E items \in DbLists :
    /\ DbCall("insert_transfers", c)
    /\ db' = [db EXCEPT !.transfers = db_insert_transfers(@, c, items)]
    /\ UNCHANGED db_pending

\* the call up to its first statement: if not transfers: return, and the dict
DbUpdateBalancesBegin(c) ==
  \E items \in DbLists :
    /\ DbCall("update_balances_from_transfers", c)
    /\ db_pending' = [db_pending EXCEPT ![c] = db_balance_changes(items)]
    /\ UNCHANGED db

DbUpdateBalancesStatement(c) ==
  /\ db_pending[c] # <<>>
  /\ db' = [db EXCEPT !.balances =
                db_update_balance(@, c, Head(db_pending[c])[1], Head(db_pending[c])[2])]
  /\ db_pending' = [db_pending EXCEPT ![c] = Tail(@)]
  /\ op' = "update_balances_from_transfers"
  /\ db_chain' = c
  /\ UNCHANGED <<arg_items, arg_n, pre_lib, collided, dropped, nops>>
  /\ DbFrame

DbRebuildAllBalances(c) ==
  /\ DbCall("rebuild_all_balances", c)
  /\ db' = [db EXCEPT !.balances = db_rebuild_all_balances(@, db.transfers, c)]
  /\ UNCHANGED db_pending

DbUpdateLastIndexedBlock(c) ==
  \E n \in Blocks :
    /\ DbCall("update_last_indexed_block", c)
    /\ db' = [db EXCEPT !.sync_state = db_update_last_indexed_block(@, c, n)]
    /\ UNCHANGED db_pending

DbSetSyncing(c) ==
  \E flag \in BOOLEAN :
    /\ DbCall("set_syncing", c)
    /\ db' = [db EXCEPT !.sync_state = db_set_syncing(@, c, flag)]
    /\ UNCHANGED db_pending

DbBatchSetAddressTypes(c) ==
  \E results \in DbResults :
    /\ DbCall("batch_set_address_types", c)
    /\ db' = [db EXCEPT !.address_types = db_batch_set_address_types(@, c, results)]
    /\ UNCHANGED db_pending

NextIsolation ==
  \E c \in ChainIds :
    \/ DbRegisterChain(c)
    \/ DbInsertTransfers(c)
    \/ DbUpdateBalancesBegin(c)
    \/ DbUpdateBalancesStatement(c)
    \/ DbRebuildAllBalances(c)
    \/ DbUpdateLastIndexedBlock(c)
    \/ DbSetSyncing(c)
    \/ DbBatchSetAddressTypes(c)

SpecIsolation == InitIsolation /\ [][NextIsolation]_vars

\* ------------------------------------------------------------------------
\* SpecFlag: sync with its first await as a step of its own.  The first
\* statement of sync, await db.set_syncing(self.chain_id, True), stands before
\* the try: the coroutine is suspended in it like in every other store call,
\* and the finally that sets the flag to False does not cover it.
\* ------------------------------------------------------------------------

\* the task runs for the first time: sync hands UPDATE sync_state SET
\* is_syncing = 1 to the thread of the connection and is suspended
SyncCall ==
  /\ pc = "created"
  /\ pc' = "set_syncing"
  /\ UNCHANGED <<store, config, batch_size, current_chain_block, locals, history, harness,
                 multi, classifier, connection, rpccall, postbatch, errlog, control,
                 database, recheck>>

\* set_syncing(True) returns; self._stop_requested = False; the try is entered
SyncSetSyncingReturns ==
  /\ pc = "set_syncing"
  /\ is_syncing' = TRUE
  /\ stop_requested' = FALSE
  /\ pc' = "sync_checkpoint"
  /\ UNCHANGED <<registered, tables, last_indexed_block, config, batch_size,
                 current_chain_block, locals, history, harness, multi, classifier,
                 connection, rpccall, postbatch, errlog, shutdown, stopped_at, database, recheck>>

\* lifespan shutdown while sync is suspended in set_syncing(True):
\* CancelledError is raised at that await, outside the try, so no finally
\* runs; the thread of the connection executes the UPDATE it was handed
CancelSetSyncing ==
  /\ pc = "set_syncing"
  /\ ~shutdown
  /\ stop_requested' = TRUE
  /\ shutdown' = TRUE
  /\ stopped_at' = pc
  /\ pc' = "stopped"
  /\ is_syncing' = TRUE
  /\ UNCHANGED <<registered, tables, last_indexed_block, config, batch_size,
                 current_chain_block, locals, history, harness, multi, classifier,
                 connection, rpccall, postbatch, errlog, database, recheck>>

\* lifespan shutdown at every other await
ShutdownInTry ==
  /\ pc # "set_syncing"
  /\ Shutdown

NextFlag ==
  \/ Start
  \/ SyncCall
  \/ SyncSetSyncingReturns
  \/ CancelSetSyncing
  \/ SyncCheckpoint
  \/ SyncRebuild
  \/ SyncPoll
  \/ SyncPollError
  \/ IndexBlocksFetch
  \/ IndexBlocksInsert
  \/ IndexBlocksUpdateBalances
  \/ IndexBlocksCheckpoint
  \/ IndexBlocksReturn
  \/ Sleep
  \/ StopRequested
  \/ ShutdownInTry
  \/ SyncExit

SpecFlag == Init /\ [][NextFlag]_vars

\* ------------------------------------------------------------------------
\* SpecStable: the classifier of sync and recheck_smart_wallets on the same
\* chain, both sub-batch by sub-batch, in any order of their steps, with a
\* provider whose answers change.  Each of the two reads its list once and
\* writes it in sub-batches later on.
\* ------------------------------------------------------------------------

\* block 1 mints to one address, block 2 to one address more than a sub-batch
\* holds, later blocks hold no transfer
StableCount(b) == IF b = 1 THEN 1 ELSE IF b = 2 THEN classify_batch_size + 1 ELSE 0

InitStable ==
  /\ InitEmpty
  /\ start_block = 1
  /\ cfg_batch_size = 1
  /\ chainlog = [b \in Blocks |-> PostBlock(b, StableCount(b))]
  /\ rpc \in PostProviders
  /\ eoa_map = EmptyTable
  /\ eoa_path = "none"
  /\ checked = <<>>
  /\ holders = <<>>

\* contracts = await db.get_contract_addresses(self.chain_id); if not
\* contracts: return
RecheckBegin ==
  /\ Live
  /\ pc # "created"
  /\ contracts = <<>>
  /\ HolderCall("recheck_smart_wallets")
  /\ contracts' \in UncheckedLists(get_contract_addresses(address_types))
  /\ recheck_i' = 0
  /\ UNCHANGED <<store, config, indexer, history, errlog, control, multi, classifier,
                 connection, rpccall, postbatch, database>>

\* one turn of the for loop of recheck_smart_wallets: batch_check_eoa, then
\* batch_set_address_types for the addresses found to be EOAs, if any
RecheckSubBatch ==
  /\ contracts # <<>>
  /\ recheck_i < Len(contracts)
  /\ checked' = sub_batch(contracts, recheck_i)
  /\ eoa_map' = check_eoa(rpc, checked')
  /\ eoa_path' = IF rpc.post_fails THEN "fallback" ELSE "batch"
  /\ address_types' = IF DOMAIN recheck_updates(eoa_map') # {}
                      THEN batch_set_address_types(address_types, recheck_updates(eoa_map'))
                      ELSE address_types
  /\ recheck_i' = next_sub_batch(recheck_i)
  /\ UNCHANGED <<registered, transfers, balances, last_indexed_block, is_syncing, config,
                 indexer, history, harness, errlog, control, multi, rpc, holders,
                 connection, rpccall, postbatch, database, contracts>>

\* the for loop is over and recheck_smart_wallets returns its counts
RecheckEnd ==
  /\ contracts # <<>>
  /\ recheck_i >= Len(contracts)
  /\ contracts' = <<>>
  /\ recheck_i' = 0
  /\ UNCHANGED <<store, config, indexer, history, harness, errlog, control, multi,
                 classifier, connection, rpccall, postbatch, database>>

\* the provider answers differently from now on
PostProviderChange ==
  /\ Live
  /\ rpc' \in PostProviders
  /\ rpc' # rpc
  /\ UNCHANGED <<store, config, indexer, history, harness, errlog, control, multi,
                 eoa_map, eoa_path, checked, holders, connection, rpccall, postbatch,
                 database, recheck>>

NextStable ==
  \/ Start
  \/ SyncBegin
  \/ SyncCheckpoint
  \/ SyncRebuild
  \/ SyncPoll
  \/ IndexBlocksFetch
  \/ IndexBlocksInsert
  \/ IndexBlocksUpdateBalances
  \/ IndexBlocksCheckpoint
  \/ IndexBlocksReturnClassify
  \/ ClassifySubBatch
  \/ ClassifyEnd
  \/ Sleep
  \/ RecheckBegin
  \/ RecheckSubBatch
  \/ RecheckEnd
  \/ PostProviderChange

SpecStable == InitStable /\ [][NextStable]_vars

\* ------------------------------------------------------------------------
\* Properties
\* ------------------------------------------------------------------------

\* sum of value over the rows with to = a, minus the sum over the rows with from = a
SignedSum(a, tbl) ==
  SumValues({t \in tbl : t.to_address = a}) - SumValues({t \in tbl : t.from_address = a})

StoredBalance(a) == Get(balances, a, 0)

\* C1 (balance equation): after plain indexing in ascending batches, for every
\* address other than ZERO whose recorded transfers all lie at or below
\* last_indexed_block, the stored balance (no row = 0) is the signed sum of its
\* transfers.
C1_BalanceEquation ==
  crashes = 0 =>
    \A a \in Addresses \ {ZERO_ADDRESS} :
      (\A t \in transfers :
         a \in {t.from_address, t.to_address} => t.block_number <= last_indexed_block)
      => StoredBalance(a) = SignedSum(a, transfers)

\* C2 (no zero rows): every row of balances has a strictly positive value and an
\* address other than ZERO, after any sequence of balance updates and rebuilds.
C2_NoZeroRows ==
  \A a \in DOMAIN balances : balances[a] > 0 /\ a # ZERO_ADDRESS

\* a balance update that computed a balance <= 0 has run and rows remain
C2_Witness ==
  /\ op = "update_balances_from_transfers"
  /\ dropped
  /\ balances # EmptyTable

\* C3 (checkpoint monotonicity): last_indexed_block never decreases, whatever the
\* sequence of registrations, starts, batches, failed fetches, process deaths,
\* changed start blocks and observed heads.
C3_CheckpointMonotonic ==
  [][registered => last_indexed_block' >= last_indexed_block]_vars

\* after a process death and a restart, the indexer has polled a head below its
\* checkpoint
C3_Witness ==
  /\ pc = "sleep"
  /\ crashes > 0
  /\ last_indexed_block >= start_block
  /\ current_chain_block < last_indexed_block

\* C4 (same batch twice): processing a batch a second time, with the same items
\* and the same range end, leaves transfers, balances and last_indexed_block as
\* the first processing left them.
C4_SameBatchTwice ==
  [][(/\ op = "process_batch"
      /\ op' = "process_batch"
      /\ nops' = nops + 1
      /\ arg_items' = arg_items
      /\ arg_n' = arg_n)
     => (/\ transfers' = transfers
         /\ balances' = balances
         /\ last_indexed_block' = last_indexed_block)]_vars

\* the process died inside a batch, was started again, and has brought the
\* checkpoint to the end of the interrupted batch
Recovered ==
  /\ crash_pc # "none"
  /\ pc = "sleep"
  /\ last_indexed_block = crash_batch_end

\* C5 (crash recovery): after a death between the commit of insert_transfers and
\* the commit of update_last_indexed_block, restart and re-processing leave the
\* transfers table as it was and the balances equal to the signed sums of the
\* transfers.
C5_CrashRecovery ==
  Recovered =>
    /\ transfers = crash_transfers
    /\ balances = rebuild_all_balances(transfers)

\* C6 (incremental = rebuild): at every batch boundary of plain indexing the
\* balances rows are the rows rebuild_all_balances computes from the same
\* transfers.
C6_IncrementalEqualsRebuild ==
  (crashes = 0 /\ pc # "inserted") => balances = rebuild_all_balances(transfers)

\* C7 (one commit per batch): no committed state holds a transfer whose delta is
\* not in the balances, or a delta in the balances whose block is above the
\* checkpoint.
C7_BatchAtomic ==
  \A t \in transfers :
    /\ Key(t) \in applied
    /\ t.block_number <= last_indexed_block

\* C8 (checkpoint last): every transfer a successful fetch returned for a block
\* from start_block up to last_indexed_block is in transfers and has gone
\* through a balance write; the checkpoint never runs ahead of the two writes.
C8_CheckpointLast ==
  \A t \in fetched :
    (start_block <= t.block_number /\ t.block_number <= last_indexed_block)
    => (t \in transfers /\ Key(t) \in applied)

\* one batch is committed and checkpointed, the next one is fetched and not yet
\* written
C8_Witness ==
  /\ \E t \in fetched : t.block_number <= last_indexed_block /\ t \in transfers
  /\ \E u \in fetched : u.block_number > last_indexed_block /\ u \notin transfers

\* C9 (idempotent insert): insert_transfers keeps every existing row as it is,
\* adds rows only under keys that were absent, and changes neither balances,
\* address types nor the sync state.
C9_InsertIdempotent ==
  [][(op' = "insert_transfers" /\ nops' = nops + 1)
     => (/\ transfers \subseteq transfers'
         /\ \A r \in transfers' \ transfers : Key(r) \notin Keys(transfers)
         /\ balances' = balances
         /\ address_types' = address_types
         /\ last_indexed_block' = last_indexed_block
         /\ is_syncing' = is_syncing)]_vars

\* insert_transfers was given an item whose key held a different row
C9_Witness ==
  op = "insert_transfers" /\ collided

IsRequestStep ==
  /\ pc = "index_blocks"
  /\ pc' = "fetched" \/ consecutive_errors' = consecutive_errors + 1

IsRangeErrorStep ==
  /\ IsRequestStep
  /\ consecutive_errors' = consecutive_errors + 1
  /\ last_event' = "range_error"

IsOtherErrorStep ==
  /\ IsRequestStep
  /\ consecutive_errors' = consecutive_errors + 1
  /\ last_event' = "other_error"

\* C11 (batch size never grows): over the lifetime of a ChainIndexer, for every
\* configured initial batch size, values below 100 included, and every sequence
\* of successes, range errors and other errors, each new value of the batch size
\* is at most the previous one.
C11_BatchSizeNonIncreasing ==
  [][(pc # "down" /\ pc' # "down") => batch_size' <= batch_size]_vars

C13_RangeErrorRetry ==
  [][/\ IsRangeErrorStep =>
          /\ transfers' = transfers
          /\ balances' = balances
          /\ last_indexed_block' = last_indexed_block
          /\ current_block' = current_block
     /\ (IsRequestStep /\ consecutive_errors > 0 /\ last_event = "range_error") =>
          /\ current_block = failed_req[1]
          /\ batch_end' = Min(current_block + Max(100, failed_bs \div 2) - 1, end_block)
     /\ (IsRequestStep /\ reduced_to # 0) => batch_size <= reduced_to]_vars

\* batch size 10000 failed on [100, 10099] and the request for [100, 5099] has
\* been answered
C13_Witness ==
  /\ pc = "fetched"
  /\ last_event = "range_error"
  /\ failed_bs = 10000
  /\ failed_req = <<100, 10099>>
  /\ current_block = 100
  /\ batch_end = 5099

\* C14 as stated (three non-range errors): a non-range error changes the batch
\* size only when it is at least the third of an unbroken run of non-range
\* failures, with no completed batch and no range error in between.
C14_ThreeNonRangeErrors ==
  [][(IsOtherErrorStep /\ batch_size' # batch_size) => nonrange_run' >= 3]_vars

\* C14 as amended: a non-range error halves the batch size (down to 100) only
\* when it is at least the third failed fetch in a row of the index_blocks call,
\* range errors counted, with no completed batch in between, and the batch size
\* is above 100.
C14_ThreeErrorsOfAnyKind ==
  [][(IsOtherErrorStep /\ batch_size' # batch_size) =>
       /\ consecutive_errors' >= 3
       /\ batch_size > 100
       /\ batch_size' = Max(100, batch_size \div 2)]_vars

\* a non-range error has halved the batch size as the first non-range failure
\* after range errors
C14_Witness ==
  /\ last_event = "other_error"
  /\ batch_size < failed_bs
  /\ nonrange_run = 1
  /\ consecutive_errors >= 3

\* C18 (no exit on RPC failure): an RPC call that fails through all its
\* attempts, get_logs or get_current_block, never ends the sync coroutine of the
\* chain.
C18_NoExitOnRpcFailure ==
  pc # "failed"

\* C15 (never stopped mid-batch): under stop() and under the shutdown path, an
\* indexer that has reached STOPPED did not end between the commit of a batch's
\* insert_transfers and the commit of its update_last_indexed_block, and no
\* batch is begun once the stop flag is set.
C15_NeverStoppedMidBatch ==
  [][/\ pc' = "stopped" => pc \notin {"inserted", "balanced"}
     /\ (stop_requested /\ pc = "index_blocks") => pc' # "fetched"
     /\ (stop_requested /\ pc = "sync_loop") => pc' # "index_blocks"]_vars

\* C16 (stop reaches every indexer): once MultiChainIndexer.stop() has been
\* called after sync_all launched the tasks, also before a task has taken its
\* first step, every indexer eventually ends its sync loop (which stop() would
\* have to wait for before it completes).
C16_StopReachesAll ==
  stop_called ~> (\A c \in ChainIds : tasks[c] \in Ended)

\* C17 (failure isolation): while a chain's task has ended with an error, every
\* other running chain can still advance its own checkpoint, no sibling was
\* ended by that failure, and sync_all has not returned while a task still runs.
C17_FailureIsolation ==
  /\ supervisor = "returned" => \A c \in ChainIds : tasks[c] \in Ended
  /\ \A c \in ChainIds : tasks[c] = "stopped" => stop_called
  /\ \A c, d \in ChainIds :
       (/\ tasks[d] = "failed"
        /\ tasks[c] = "running"
        /\ ~stop_flags[c]
        /\ checkpoints[c] < MaxBlock) => ENABLED TaskAdvance(c)

\* one chain has failed and another has advanced its checkpoint since
C17_Witness ==
  /\ supervisor = "gathering"
  /\ \E c, d \in ChainIds :
       /\ tasks[d] = "failed"
       /\ tasks[c] = "running"
       /\ checkpoints[c] > failure_mark[c]

\* the code of an address written as 0x and lower-case hex digits
CodeString(addr) == Str0x \o hexdigits(rpc.code[addr])

\* the rule of the classifier applied to a code string
RuleIsEoa(code) ==
  IF code = <<>> \/ code = <<"0", "x">> THEN TRUE
  ELSE IF \E i \in DOMAIN SMART_WALLET_PATTERNS :
            /\ Len(code) >= Len(SMART_WALLET_PATTERNS[i])
            /\ \A k \in 1..Len(SMART_WALLET_PATTERNS[i]) :
                 lower(<<code[k]>>) = lower(<<SMART_WALLET_PATTERNS[i][k]>>)
       THEN TRUE
  ELSE FALSE

\* the code of the address reached the classifier
CodeObtained(addr) ==
  IF eoa_path = "batch"
  THEN \E k \in DOMAIN ClassifiedAddresses :
         ClassifiedAddresses[k] = addr /\ rpc.answer[k - 1] = "result"
  ELSE addr \notin rpc.get_code_fails

C20_CorrelatedById ==
  eoa_path = "batch" =>
    eoa_map = batch_check_eoa(ClassifiedAddresses,
                              EntriesAscending(rpc, ClassifiedAddresses,
                                               {i \in RequestIds : rpc.answer[i] # "absent"}))

\* the provider answered both ids in reverse order, and the two addresses are
\* classified differently
C20_Witness ==
  /\ eoa_path = "batch"
  /\ rpc.reversed
  /\ \A i \in RequestIds : rpc.answer[i] = "result"
  /\ eoa_map["0xA"] /\ ~eoa_map["0xB"]

\* the code of address a reached the classifier in a call that sent the list
\* of addresses to provider p over the given path
Obtained(p, path, list, a) ==
  IF path = "batch"
  THEN \E k \in DOMAIN list : list[k] = a /\ p.answer[k - 1] = "result"
  ELSE a \notin p.get_code_fails

\* the addresses of a list of holder rows
HolderAddresses(rows) == {rows[i].address : i \in DOMAIN rows}

IsRecheckStep == nops' = nops + 1 /\ op' = "recheck_smart_wallets"

\* C21 (recheck of contracts): recheck_smart_wallets sets is_eoa to true for
\* exactly the addresses classified as contract whose code now classifies as EOA
\* under the rule, leaves every other address_types row as it was, turns no
\* address from EOA to contract, and a promoted address that has a balances row
\* is returned by the EOA-only holder query afterwards.
C21_RecheckOnlyPromotes ==
  [][IsRecheckStep =>
       /\ DOMAIN address_types' = DOMAIN address_types
       /\ \A a \in DOMAIN address_types :
            address_types'[a] =
              IF /\ ~address_types[a]
                 /\ Obtained(rpc, eoa_path', checked', a)
                 /\ RuleIsEoa(CodeString(a))
              THEN TRUE
              ELSE address_types[a]
       /\ \A a \in DOMAIN address_types : address_types[a] => address_types'[a]
       /\ \A a \in DOMAIN balances' :
            (a \in DOMAIN address_types /\ ~address_types[a] /\ address_types'[a]) =>
              \A rows \in get_holders_with_balances(balances', address_types', TRUE) :
                a \in HolderAddresses(rows)
  ]_vars

\* a recheck over the one contract 0xA, which holds a balance, has promoted it
C21_Witness ==
  /\ op = "recheck_smart_wallets"
  /\ checked = <<"0xA">>
  /\ address_types["0xA"]
  /\ "0xA" \in DOMAIN balances
  /\ rpc.code["0xA"] = Erc4337Code

\* the addresses that have a balances row and an address_types row with is_eoa
ClassifiedEoaHolders ==
  {a \in DOMAIN balances : a \in DOMAIN address_types /\ address_types[a]}

\* C22 (EOA-only queries): get_holders_with_balances and get_holder_count with
\* eoa_only = true return exactly the addresses that have a balances row and an
\* address_types row with is_eoa = true; an address with a balances row and no
\* address_types row is not returned, in any state of indexing and classification.
C22_EoaOnlyQueries ==
  /\ get_holder_count_eoa_only(balances, address_types) = Cardinality(ClassifiedEoaHolders)
  /\ op = "get_holders_eoa_only" =>
       /\ HolderAddresses(holders) = ClassifiedEoaHolders
       /\ Len(holders) = Cardinality(ClassifiedEoaHolders)
       /\ \A i \in DOMAIN holders : holders[i].balance = balances[holders[i].address]
       /\ \A a \in DOMAIN balances :
            a \notin DOMAIN address_types => a \notin HolderAddresses(holders)

\* the EOA-only query has returned a classified holder while another address
\* holds a balance and is not classified yet
C22_Witness ==
  /\ op = "get_holders_eoa_only"
  /\ holders # <<>>
  /\ \E a \in DOMAIN balances : a \notin DOMAIN address_types

\* C23 (zero address never classified): in every state reached by indexing
\* transfers, mints from ZERO and burns to ZERO among them, by classification and
\* by the recheck, address_types holds no row for ZERO, and
\* get_unchecked_addresses does not return ZERO.
C23_ZeroNeverClassified ==
  /\ ZERO_ADDRESS \notin DOMAIN address_types
  /\ ZERO_ADDRESS \notin get_unchecked_addresses(transfers, address_types)
  /\ ZERO_ADDRESS \notin Range(checked)

\* a mint and a burn are stored and the classification that followed has
\* written its results
C23_Witness ==
  /\ op = "check_and_cache_address_types"
  /\ checked # <<>>
  /\ DOMAIN address_types # {}
  /\ \E t \in transfers : t.from_address = ZERO_ADDRESS
  /\ \E t \in transfers : t.to_address = ZERO_ADDRESS

\* C24 (numeric order of holders): get_holders_with_balances returns the rows by
\* balance descending in the order of the numbers, whatever their width: of two
\* returned rows the one with the larger balance comes first.
C24_NumericOrder ==
  op \in {"get_holders", "get_holders_eoa_only"} =>
    \A i, j \in DOMAIN holders :
      holders[i].balance > holders[j].balance => i < j

\* C25 (rebuild with wide values): rebuild_all_balances stores, for every
\* address other than ZERO, exactly the signed sum of its transfers when that sum
\* is positive and no row otherwise, whatever the width of a value or of a sum.
C25_RebuildExact ==
  op \in {"rebuild_all_balances", "rebuild_all_balances raised"} =>
    /\ op = "rebuild_all_balances"
    /\ ZERO_ADDRESS \notin DOMAIN balances
    /\ \A a \in Addresses \ {ZERO_ADDRESS} :
         IF SignedSum(a, transfers) > 0
         THEN a \in DOMAIN balances /\ balances[a] = SignedSum(a, transfers)
         ELSE a \notin DOMAIN balances

\* the step of the startup that calls register_chain
IsRegisterStep == pc = "down" /\ pc' = "created"

\* C26 (register_chain is idempotent): a call for a chain that is registered
\* already, with the same start_block or another one, leaves last_indexed_block
\* and is_syncing as they are; the first call creates the sync state with
\* last_indexed_block = start_block - 1 and is_syncing = false.
C26_RegisterIdempotent ==
  [][IsRegisterStep =>
       IF registered
       THEN last_indexed_block' = last_indexed_block /\ is_syncing' = is_syncing
       ELSE last_indexed_block' = start_block' - 1 /\ is_syncing' = FALSE
  ]_vars

\* the chain was registered again after a process death that left is_syncing
\* set and the checkpoint at or past every start block of the configuration
C26_Witness ==
  /\ pc = "created"
  /\ crashes > 0
  /\ is_syncing
  /\ last_indexed_block > start_block - 1
  /\ \E b \in DOMAIN chainlog : chainlog[b] # <<>>
  /\ \E sb \in StartBlocks : sb # start_block /\ last_indexed_block > sb - 1

\* the table the operation in progress leaves when it has run to its commit
AfterImage(kind) ==
  IF kind = "update_balances_from_transfers"
  THEN update_balances_from_transfers(snapshot, arg_items)
  ELSE rebuild_all_balances(transfers)

\* C27 (atomic writes, committed reads): while update_balances_from_transfers or
\* rebuild_all_balances is between its first statement and its commit, what is
\* on disk is the table as it was before the operation or as the whole operation
\* makes it, whatever other workers commit meanwhile; a holder query returns the
\* rows of one of these two tables; and so does the table a process death leaves.
C27_AtomicWrites ==
  /\ writing \notin {"none", "crashed"} =>
       committed \in {snapshot, AfterImage(writing)}
  /\ (writing \notin {"none", "crashed"} /\ op = "get_holders") =>
       \/ Range(holders) = BalanceRows(snapshot)
       \/ Range(holders) = BalanceRows(AfterImage(writing))
  /\ writing = "crashed" => balances \in {snapshot, AfterImage(crash_pc)}

\* C28 (RPC calls are suspension points): while the sync task of one chain has a
\* get_logs, eth_blockNumber or batched eth_getCode request outstanding, the
\* sync task of every other chain that has a step to take can take it, and the
\* HTTP read path can serve a request.
C28_RpcIsSuspensionPoint ==
  \A c \in ChainIds :
    tasks[c] \in RpcMethods =>
      /\ ENABLED HttpGetHolders
      /\ \A d \in ChainIds \ {c} :
           tasks[d] \in {"created", "running", "polled", "indexed", "sleeping"} =>
             ENABLED LoopStep(d)

\* a store call of the batch raises and index_blocks goes back to its loop
IsStoreErrorStep ==
  /\ pc \in {"fetched", "inserted", "balanced"}
  /\ pc' = "index_blocks"
  /\ consecutive_errors' = consecutive_errors + 1

\* update_last_indexed_block returned: the batch, first try or retry, went through
IsCheckpointStep ==
  /\ pc \in {"fetched", "balanced"}
  /\ pc' = "index_blocks"
  /\ consecutive_errors' = 0

\* every fetched transfer at or below the checkpoint is stored, and every
\* balance is the signed sum of the stored transfers
ExactAtCheckpoint ==
  /\ \A t \in fetched : t.block_number <= last_indexed_block => t \in transfers
  /\ \A a \in Addresses \ {ZERO_ADDRESS} : StoredBalance(a) = SignedSum(a, transfers)

\* C29 (store failure): when insert_transfers, update_balances_from_transfers or
\* update_last_indexed_block raises during a batch, the checkpoint is not
\* advanced and the batch is tried again from the same block; once the batch
\* has gone through, no transfer is missing and every balance is the signed sum
\* of the stored transfers.
C29_StoreFailureRetry ==
  [][/\ IsStoreErrorStep =>
          /\ last_indexed_block' = last_indexed_block
          /\ current_block' = current_block
          /\ current_block' = last_indexed_block' + 1
     /\ IsCheckpointStep => ExactAtCheckpoint'
  ]_vars

\* the running process rebuilt the balances at startup and has then indexed up
\* to the head it polled
RebuiltAndCaughtUp ==
  /\ rebuilt
  /\ pc = "sleep"
  /\ last_indexed_block = current_chain_block

\* C30 (startup recovery): after an indexer that started with an empty balances
\* table and a checkpoint at or above start_block has run rebuild_all_balances
\* and re-processed the blocks from the checkpoint to the head, every balance
\* is the signed sum of the stored transfers, also when transfers above the
\* checkpoint were stored before the process died.
C30_StartupRecovery ==
  RebuiltAndCaughtUp =>
    \A a \in Addresses \ {ZERO_ADDRESS} : StoredBalance(a) = SignedSum(a, transfers)

\* C31 (ascending contiguous batches): every batch that index_blocks commits
\* starts at last_indexed_block + 1 and ends at
\* min(current_block + batch_size - 1, end_block), so the checkpoint moves up by
\* at least one and at most batch_size blocks, stays at or below the head polled
\* for this backfill, and the next batch starts right after it.
C31_ContiguousBatches ==
  [][IsCheckpointStep =>
       /\ current_block = last_indexed_block + 1
       /\ last_indexed_block' = Min(current_block + batch_size - 1, end_block)
       /\ last_indexed_block' > last_indexed_block
       /\ last_indexed_block' - last_indexed_block <= batch_size
       /\ end_block = current_chain_block
       /\ last_indexed_block' <= current_chain_block
       /\ current_block' = last_indexed_block' + 1]_vars

\* batch size 150 has been halved to 100 and the second batch of the backfill
\* to head 10300, [101, 200], has been committed
C31_Witness ==
  /\ pc = "index_blocks"
  /\ batch_size = 100
  /\ current_chain_block = 10300
  /\ last_indexed_block = 200
  /\ current_block = 201

\* C32 (a smaller range after a range error): the get_logs request that follows
\* a range error, for the same current_block, spans strictly fewer blocks than
\* the request that failed, also when the batch size is already 100.
C32_RetrySpanSmaller ==
  [][(IsRequestStep /\ consecutive_errors > 0 /\ last_event = "range_error") =>
       /\ current_block = failed_req[1]
       /\ batch_end' - current_block < failed_req[2] - failed_req[1]]_vars

\* the texts that hold "range", "too large", "timeout" or "exceeded" in upper or
\* lower case
RangeTexts == {ReadTimeout, BlockRange, TooLarge, LimitExceeded}

\* at most 5 attempts, the waits 1, 2, 4, 8 s between them (min(30, 2^attempt)),
\* and a call raises a text outside RangeTexts only from its fifth attempt
RetryBound ==
  /\ Len(rpc_errors) <= 5
  /\ outcome = "returned" => Len(rpc_errors) <= 4
  /\ \A i \in DOMAIN waits : waits[i] = Min(30, 2^(i - 1))
  /\ outcome \in {"pending", "returned"} => Len(waits) = Len(rpc_errors)
  /\ outcome = "raised" => Len(waits) = Len(rpc_errors) - 1
  /\ (outcome = "raised" /\ rpc_errors[Len(rpc_errors)] \notin RangeTexts) =>
       Len(rpc_errors) = 5

\* C33 as stated (retry bound): a get_current_block or get_logs call makes at
\* most 5 attempts, waits min(30, 2^attempt) s between them and raises after the
\* fifth failure; an error whose text holds range, too large, timeout or
\* exceeded, in any case, is raised by the attempt where it occurs, in either
\* call.
C33_RangeErrorEndsAnyCall ==
  outcome # "none" =>
    /\ RetryBound
    /\ \A i \in DOMAIN rpc_errors :
         rpc_errors[i] \in RangeTexts => (i = Len(rpc_errors) /\ outcome = "raised")

\* C33 as amended: the bound and the waits hold for both calls; an error whose
\* text holds range, too large, timeout or exceeded is raised by the attempt
\* where it occurs in fetch_transfer_events, while get_current_block treats
\* every error alike and raises only from its fifth attempt.
C33_RangeErrorEndsFetch ==
  outcome # "none" =>
    /\ RetryBound
    /\ call = "fetch_transfer_events" =>
         \A i \in DOMAIN rpc_errors :
           rpc_errors[i] \in RangeTexts => (i = Len(rpc_errors) /\ outcome = "raised")
    /\ (call = "get_current_block" /\ outcome = "raised") => Len(rpc_errors) = 5

\* fetch_transfer_events met two gateway errors, waited 1 s and 2 s, and raised
\* the timeout of its third attempt
C33_Witness ==
  /\ call = "fetch_transfer_events"
  /\ outcome = "raised"
  /\ rpc_errors = <<BadGateway, BadGateway, ReadTimeout>>
  /\ waits = <<1, 2>>
  /\ attempt = 2

\* C34 (backfill liveness): with no stop request, a head that stands still and
\* a provider that answers every get_logs request for at most 100 blocks at some
\* time, the indexer reaches last_indexed_block = head and sleeps; and the sync
\* loop goes into index_blocks only with a polled head above
\* last_indexed_block.
C34_BackfillLiveness ==
  /\ <>(pc = "sleep" /\ last_indexed_block = LiveHead)
  /\ [][(pc = "sync_loop" /\ pc' = "index_blocks") =>
          current_chain_block' > last_indexed_block]_vars

\* the addresses of the stored transfers, ZERO left out
TransferAddresses ==
  ({t.from_address : t \in transfers} \cup {t.to_address : t \in transfers})
    \ {ZERO_ADDRESS}

\* index_blocks returns to sync
IsIndexBlocksReturnStep == pc = "index_blocks" /\ pc' \notin {"index_blocks", "fetched"}

\* one sub-batch of the classifier
IsSubBatchStep == pc = "classify" /\ pc' = "classify"

\* check_and_cache_address_types returns
IsClassifierEndStep == pc \in {"index_blocks", "classify"} /\ pc' = "sleep"

\* C35 (classification completeness): when index_blocks returns, the classifier
\* is run on the addresses of the transfers that have no address_types row; when
\* it returns with the stop flag not set, every address of the transfers other
\* than ZERO has a row; a sub-batch starts only with the stop flag not set,
\* writes at most one sub-batch of rows, all for addresses of its list that had
\* no row, and leaves the other rows as they are; nothing else writes
\* address_types.
C35_ClassificationComplete ==
  [][/\ IsIndexBlocksReturnStep =>
          /\ pc' \in {"classify", "sleep"}
          /\ cls_i' = 0
          /\ Range(unchecked') = TransferAddresses \ DOMAIN address_types
          /\ Len(unchecked') = Cardinality(Range(unchecked'))
     /\ (IsClassifierEndStep /\ ~stop_requested) =>
          TransferAddresses \subseteq DOMAIN address_types'
     /\ IsSubBatchStep =>
          /\ ~stop_requested
          /\ DOMAIN address_types \subseteq DOMAIN address_types'
          /\ \A a \in DOMAIN address_types : address_types'[a] = address_types[a]
          /\ (DOMAIN address_types') \ (DOMAIN address_types) \subseteq Range(unchecked)
          /\ Cardinality((DOMAIN address_types') \ (DOMAIN address_types))
               <= classify_batch_size
     /\ address_types' # address_types => IsSubBatchStep]_vars

\* a run of the classifier over one sub-batch more than one address has gone
\* through both sub-batches, the stop flag not set
C35_Witness ==
  /\ pc = "sleep"
  /\ ~stop_requested
  /\ Len(unchecked) = classify_batch_size + 1
  /\ cls_i = 2 * classify_batch_size
  /\ checked = <<unchecked[Len(unchecked)]>>
  /\ TransferAddresses \subseteq DOMAIN address_types
  /\ \E a \in DOMAIN address_types : ~address_types[a]
\* the rows of one chain in the four tables
RowsOfChain(d, cid) ==
  [transfers |-> {r \in d.transfers : r.chain_id = cid},
   balances |-> {r \in d.balances : r.chain_id = cid},
   address_types |-> {r \in d.address_types : r.chain_id = cid},
   sync_state |-> {r \in d.sync_state : r.chain_id = cid}]

StoreWrites ==
  {"insert_transfers", "update_balances_from_transfers", "rebuild_all_balances",
   "update_last_indexed_block", "set_syncing", "batch_set_address_types"}

\* C36: a store write performed for one chain (insert_transfers,
\* update_balances_from_transfers statement by statement, rebuild_all_balances,
\* update_last_indexed_block, set_syncing, batch_set_address_types) leaves the
\* rows of every other chain in transfers, balances, address_types and
\* sync_state as they were, in any order of the calls of the two workers.
C36_CrossChainIsolation ==
  [][(op' \in StoreWrites /\ (db' # db \/ db_pending' # db_pending)) =>
       \A other \in ChainIds \ {db_chain'} :
         RowsOfChain(db', other) = RowsOfChain(db, other)]_vars

\* chain 1 has written the balance of an address, its update is over, and
\* chain 369 holds a balance row for the same address
C36_Witness ==
  /\ db_chain = 1
  /\ op = "update_balances_from_transfers"
  /\ db_pending[1] = <<>>
  /\ \E r \in db.balances : r.chain_id = 1 /\ r.address = "0xA"
  /\ \E r \in db.balances : r.chain_id = 369 /\ r.address = "0xA"
  /\ \E r \in db.sync_state : r.chain_id = 369
\* sync is between the return of set_syncing(True) and its exit
SyncRunning ==
  pc \in {"sync_checkpoint", "sync_rebuild", "sync_loop", "index_blocks", "fetched",
          "inserted", "balanced", "sleep"}

\* sync was entered and has exited: by the stop flag, by an exception or by the
\* cancellation of its task
SyncExited == pc \in {"stopped", "failed"} /\ stopped_at # "created"

\* C37: is_syncing is true while sync runs, caught up and sleeping between two
\* polls included, and false once sync has exited by whatever path (stop flag
\* seen by the while, exception, cancellation of the task).
C37_SyncingFlag ==
  /\ SyncRunning => is_syncing
  /\ SyncExited => ~is_syncing

\* the same with the exits that happen inside the try of sync only
SyncingFlagInTry ==
  /\ SyncRunning => is_syncing
  /\ (SyncExited /\ stopped_at # "set_syncing") => ~is_syncing
IsRecheckSubBatchStep == contracts # <<>> /\ recheck_i' > recheck_i

\* C38: whatever the order of the steps of the classifier of sync and of
\* recheck_smart_wallets, no row of address_types is deleted, a row that says
\* is_eoa = true keeps saying so, and a row that says is_eoa = false changes
\* only in a turn of the loop of recheck_smart_wallets, which sets it to true.
C38_StableOncePositive ==
  [][/\ \A a \in DOMAIN address_types :
          /\ a \in DOMAIN address_types'
          /\ address_types[a] => address_types'[a]
     /\ (\E a \in DOMAIN address_types : address_types'[a] # address_types[a])
          => IsRecheckSubBatchStep]_vars

\* the classifier is past its first sub-batch and a recheck that began
\* meanwhile has promoted an address to is_eoa = true that the classifier had
\* recorded false when the provider answered with an error
C38_Witness ==
  /\ pc = "classify"
  /\ cls_i > 0
  /\ recheck_i > 0
  /\ \E a \in Range(contracts) : address_types[a] /\ rpc.code[a] = NoCode
\* C39: a batch whose get_logs returned no transfer moves last_indexed_block to
\* the end of the batch and leaves transfers, balances and address_types as
\* they were; update_balances_from_transfers called with an empty list leaves
\* every table and last_indexed_block as they were.
C39_EmptyBatch ==
  [][/\ (op' = "process_batch" /\ nops' = nops + 1 /\ arg_items' = <<>>)
          => (/\ last_indexed_block' = arg_n'
              /\ UNCHANGED <<tables, registered, is_syncing>>)
     /\ (op' = "update_balances_from_transfers" /\ nops' = nops + 1 /\ arg_items' = <<>>)
          => UNCHANGED store]_vars

\* an empty batch was processed after a batch with transfers: the tables hold
\* rows and the checkpoint has moved to the end of the empty batch
C39_Witness ==
  /\ op = "process_batch"
  /\ arg_items = <<>>
  /\ nops = 2
  /\ transfers # {}
  /\ DOMAIN balances # {}
  /\ last_indexed_block = arg_n
  /\ last_indexed_block # pre_lib
====
